---- MODULE Spec2Model ----
(***************************************************************************)
(* Symbol navigator of openhands-aci (editor/navigator.py) and the editor  *)
(* commands that call it (editor/editor.py).                               *)
(*                                                                         *)
(* A string is a sequence of character codes.  A text is a sequence of     *)
(* lines, every line standing for the line followed by "\n": every piece   *)
(* the navigator concatenates ends with "\n", so the texts it builds are   *)
(* sequences of complete lines.                                            *)
(***************************************************************************)
EXTENDS Integers, Sequences, FiniteSets, TLC

VARIABLES
    disk,                \* rel path -> [code, mtime]: the files of the work tree
    tracked,             \* the list of files the tracked-file source returns
    gitOk,               \* whether GitRepoUtils finds a repository
    editorUp,            \* whether an OHEditor (and its navigator) exists
    file_context_cache,  \* SymbolNavigator.file_context_cache
    rendered_tree_cache, \* SymbolNavigator.rendered_tree_cache
    index,               \* what the last get_parsed_tags returned
    op,                  \* the last call: command, arguments, outcome, output, render calls
    repeat,              \* the last call repeated the call before it, nothing changed between
    samePrev,            \* the last call's output equals that of the call before it
    changed,             \* the tree, git or the editor changed since the last call
    bothChanged,         \* the last render_tree call saw content and mtime both differ from the file's last render
    lastRender,          \* rel path -> [code, mtime] of the file when render_tree last saw it
    edits,               \* number of writes to the tree (bounded)
    fault,               \* rel path -> "none", "extract" or "render": what fails for the file
    filesystem,          \* path -> content of the file the editor edits, or Absent
    file_history,        \* OHEditor._file_history: path -> list of contents
    undoable,            \* path -> the contents before each edit not yet undone, oldest first
    last,                \* the last edit command: arguments, outcome, state before it
    threads              \* the render_tree calls of two threads: their frames, and whether calls overlapped

vars == <<disk, tracked, gitOk, editorUp, file_context_cache, rendered_tree_cache,
          index, op, repeat, samePrev, changed, bothChanged, lastRender, edits,
          fault, filesystem, file_history, undoable, last, threads>>

----------------------------------------------------------------------------
(* Bounds of the model *)

LongLineLen == 160
LongPathLen == 150
LongSymLen == 131
MaxEdits == 1

(* navigator.py:157  line[:150] *)
MaxLineLen == 150

----------------------------------------------------------------------------
(* Strings *)

Rep(c, n) == [i \in 1..n |-> c]

Min(a, b) == IF a < b THEN a ELSE b

\* Python's str < str: lexicographic by code point, a proper prefix is smaller.
StrLess(s, t) ==
    \E k \in 1..(Min(Len(s), Len(t)) + 1) :
        /\ \A i \in 1..(k - 1) : s[i] = t[i]
        /\ \/ k > Len(s) /\ k <= Len(t)
           \/ k <= Len(s) /\ k <= Len(t) /\ s[k] < t[k]

\* Python's  f in s  for strings
IsSubstr(f, s) ==
    \E i \in 0..(Len(s) - Len(f)) : SubSeq(s, i + 1, i + Len(f)) = f

\* line[:150]
Truncate(line) == SubSeq(line, 1, Min(Len(line), MaxLineLen))

\* An absent optional string argument (Python's None): no string holds -1.
NoPath == <<-1>>

----------------------------------------------------------------------------
(* The work tree: paths, file contents, and the tags the extractor yields *)

PathA == <<97>>
PathLong == <<97>> \o Rep(98, LongPathLen - 1)
PathB == <<98>>
Paths == {PathA, PathLong, PathB}

\* "Foo" and "Goo" occur in the tree; "Fox" and the long symbol do not.
SymF == <<70, 111, 111>>
SymG == <<71, 111, 111>>
SymFx == <<70, 111, 120>>
SymLong == Rep(72, LongSymLen)
SymEmpty == <<>>

Codes == 1..3
NumLines == 3

\* The text of line k of file content c.
CodeLine(c, k) ==
    Rep(100 + 10 * c + k, IF c = 2 /\ k = 2 THEN LongLineLen ELSE 4 + k)

TagKind_DEF == "DEF"
TagKind_REF == "REF"

\* ParsedTag without its location in the tree (abs_path is root/rel_path and is
\* not modelled apart from rel_path).
Tag(name, kind, s, e) ==
    [node_content |-> name, tag_kind |-> kind, start_line |-> s, end_line |-> e]

ParsedTag(rel, t) ==
    [rel_path |-> rel, node_content |-> t.node_content, tag_kind |-> t.tag_kind,
     start_line |-> t.start_line, end_line |-> t.end_line]

\* What TreeSitterParser.get_tags_from_file yields for content c, in order.
CodeTags(c) ==
    CASE c = 1 -> << Tag(SymF, TagKind_DEF, 1, 2), Tag(SymG, TagKind_REF, 3, 3),
                     Tag(SymF, TagKind_REF, 1, 2), Tag(SymG, TagKind_REF, 3, 3),
                     Tag(SymG, TagKind_REF, 1, 1) >>
      [] c = 2 -> << Tag(SymF, TagKind_DEF, 1, 2), Tag(SymF, TagKind_REF, 3, 3),
                     Tag(SymF, TagKind_DEF, 2, 3), Tag(SymG, TagKind_DEF, 1, 1) >>
      [] OTHER -> << Tag(SymF, TagKind_DEF, 2, 1), Tag(SymG, TagKind_DEF, 1, 3),
                     Tag(SymF, TagKind_REF, 2, 2), Tag(SymG, TagKind_DEF, 1, 1) >>

\* ts_parser.get_tags_from_file(abs_file, rel_file): the tags of the file's
\* current content, each carrying the file's relative path.
GetTagsFromFile(rel, dsk) ==
    [i \in 1..Len(CodeTags(dsk[rel].code)) |-> ParsedTag(rel, CodeTags(dsk[rel].code)[i])]

\* get_modified_time(abs_file)
GetModifiedTime(rel, dsk) == dsk[rel].mtime

\* The lists git_utils.get_all_absolute_tracked_files() can return: the files
\* of a set, each once, in any order.
TrackedFileLists(files) ==
    {s \in [1..Cardinality(files) -> files] : \A i, j \in DOMAIN s : i # j => s[i] # s[j]}

----------------------------------------------------------------------------
(* Dictionaries: a function whose domain is the set of keys present *)

EmptyDict == [k \in {} |-> {}]
Get(d, k, default) == IF k \in DOMAIN d THEN d[k] ELSE default
Put(d, k, v) == [x \in DOMAIN d \cup {k} |-> IF x = k THEN v ELSE d[x]]

----------------------------------------------------------------------------
(* SymbolNavigator.get_parsed_tags *)

EmptyIndex ==
    [ident2defrels |-> EmptyDict, ident2refrels |-> EmptyDict,
     identwrel2deftags |-> EmptyDict, identwrel2reftags |-> EmptyDict]

\* Mutant of AddDefTag: an identifier keeps the definitions of the first file
\* that defines it; those of later files are dropped.
AddDefTag_FirstFile(idx, rel_file, parsed_tag) ==
    IF /\ parsed_tag.tag_kind = TagKind_DEF
       /\ Get(idx.ident2defrels, parsed_tag.node_content, {rel_file}) = {rel_file}
    THEN [idx EXCEPT
            !.ident2defrels = Put(@, parsed_tag.node_content, {rel_file}),
            !.identwrel2deftags = Put(@, <<rel_file, parsed_tag.node_content>>,
                                  Get(@, <<rel_file, parsed_tag.node_content>>, {})
                                      \cup {parsed_tag})]
    ELSE idx

\* Mutant of AddDefTag: the file is not added to ident2defrels.
AddDefTag_NoRel(idx, rel_file, parsed_tag) ==
    IF parsed_tag.tag_kind = TagKind_DEF
    THEN [idx EXCEPT
            !.identwrel2deftags = Put(@, <<rel_file, parsed_tag.node_content>>,
                                  Get(@, <<rel_file, parsed_tag.node_content>>, {})
                                      \cup {parsed_tag})]
    ELSE idx

\* The body of the inner loop, for one parsed tag of file rel_file.
AddDefTag(idx, rel_file, parsed_tag) ==
    IF parsed_tag.tag_kind = TagKind_DEF
    THEN [idx EXCEPT
            !.ident2defrels = Put(@, parsed_tag.node_content,
                                  Get(@, parsed_tag.node_content, {}) \cup {rel_file}),
            !.identwrel2deftags = Put(@, <<rel_file, parsed_tag.node_content>>,
                                  Get(@, <<rel_file, parsed_tag.node_content>>, {})
                                      \cup {parsed_tag})]
    ELSE idx

\* Mutant of AddRefTag: a path is appended to ident2refrels only when the list
\* does not hold it yet.
AddRefTag_OncePerFile(idx, rel_file, parsed_tag) ==
    IF parsed_tag.tag_kind = TagKind_REF
    THEN [idx EXCEPT
            !.ident2refrels =
                LET rels == Get(@, parsed_tag.node_content, <<>>)
                IN  Put(@, parsed_tag.node_content,
                        IF \E i \in DOMAIN rels : rels[i] = rel_file
                        THEN rels ELSE Append(rels, rel_file)),
            !.identwrel2reftags = Put(@, <<rel_file, parsed_tag.node_content>>,
                                  Get(@, <<rel_file, parsed_tag.node_content>>, {})
                                      \cup {parsed_tag})]
    ELSE idx

\* The body of the inner loop for a reference tag of file rel_file.
AddRefTag(idx, rel_file, parsed_tag) ==
    IF parsed_tag.tag_kind = TagKind_REF
    THEN [idx EXCEPT
            !.ident2refrels = Put(@, parsed_tag.node_content,
                                  Append(Get(@, parsed_tag.node_content, <<>>), rel_file)),
            !.identwrel2reftags = Put(@, <<rel_file, parsed_tag.node_content>>,
                                  Get(@, <<rel_file, parsed_tag.node_content>>, {})
                                      \cup {parsed_tag})]
    ELSE idx

AddTag(idx, rel_file, parsed_tag) ==
    AddRefTag(AddDefTag(idx, rel_file, parsed_tag), rel_file, parsed_tag)

RECURSIVE AddTags(_, _, _, _)
AddTags(idx, rel_file, parsed_tags, i) ==
    IF i > Len(parsed_tags) THEN idx
    ELSE AddTags(AddTag(idx, rel_file, parsed_tags[i]), rel_file, parsed_tags, i + 1)

RECURSIVE AddFiles(_, _, _, _)
AddFiles(idx, files, dsk, i) ==
    IF i > Len(files) THEN idx
    ELSE AddFiles(AddTags(idx, files[i], GetTagsFromFile(files[i], dsk), 1), files, dsk, i + 1)

\* Mutant of GetParsedTags: an index built by an earlier call is kept and
\* returned again.
GetParsedTags_KeptIndex(all_abs_files, dsk) ==
    IF index # EmptyIndex THEN index ELSE AddFiles(EmptyIndex, all_abs_files, dsk, 1)

\* get_parsed_tags(): all_abs_files is the list the tracked-file source returned.
GetParsedTags(all_abs_files, dsk) == AddFiles(EmptyIndex, all_abs_files, dsk, 1)

----------------------------------------------------------------------------
(* grep_ast.TreeContext as render_tree uses it: the lines of interest that  *)
(* lie in the file, numbered, with a gap marker for every run of hidden     *)
(* lines.  The enclosing-scope lines TreeContext adds are not modelled.     *)

GapLine == <<46, 46, 46, 8942, 46, 46, 46>>

\* f"{i+1:3}" + "│" + line
RenderedLine(code, k) == <<32, 32, 48 + k, 9474>> \o CodeLine(code, k)

RECURSIVE FormatFrom(_, _, _, _)
FormatFrom(code, show, k, dots) ==
    IF k > NumLines THEN <<>>
    ELSE IF k \notin show
         THEN (IF dots THEN <<GapLine>> ELSE <<>>) \o FormatFrom(code, show, k + 1, FALSE)
         ELSE <<RenderedLine(code, k)>> \o FormatFrom(code, show, k + 1, TRUE)

\* context.add_context(); context.format()  for a context holding `code`
\* whose lines_of_interest is the set `lines_of_interest`.
Format(code, lines_of_interest) ==
    LET show == lines_of_interest \cap (1..NumLines)
    IN  IF show = {} THEN <<>> ELSE FormatFrom(code, show, 1, 1 \notin show)

----------------------------------------------------------------------------
(* SymbolNavigator.render_tree *)

RECURSIVE InsertSorted(_, _)
InsertSorted(x, s) ==
    IF s = <<>> THEN <<x>>
    ELSE IF x <= Head(s) THEN <<x>> \o s
    ELSE <<Head(s)>> \o InsertSorted(x, Tail(s))

\* sorted(lois)
RECURSIVE Sorted(_)
Sorted(lois) == IF lois = <<>> THEN <<>> ELSE InsertSorted(Head(lois), Sorted(Tail(lois)))

SetOf(seq) == {seq[i] : i \in DOMAIN seq}

\* tree_cache_key = (rel_file, tuple(sorted(lois)), mtime)
TreeCacheKey(rel_file, lois, mtime) == <<rel_file, Sorted(lois), mtime>>

\* Mutant of ContextIsStale: an entry with any other modification time than the
\* current one is replaced, a newer one included.
ContextIsStale_NotEqual(fcc, rel_file, mtime) ==
    \/ rel_file \notin DOMAIN fcc
    \/ fcc[rel_file].mtime # mtime

\* The condition under which render_tree reads the file and builds a new
\* TreeContext instead of reusing the cached one.
ContextIsStale(fcc, rel_file, mtime) ==
    \/ rel_file \notin DOMAIN fcc
    \/ fcc[rel_file].mtime < mtime

\* Mutant of RenderTree: no cache is consulted or filled, the file is read and
\* rendered on every call.
RenderTree_NoCache(rel_file, lois, dsk, fcc, rtc) ==
    [res |-> Format(dsk[rel_file].code, SetOf(lois)), fcc |-> fcc, rtc |-> rtc,
     hit |-> FALSE, read |-> TRUE]

\* Mutant of RenderTree: the lines of interest of a reused context are added to,
\* not replaced.
RenderTree_KeepsLois(rel_file, lois, dsk, fcc, rtc) ==
    LET mtime == GetModifiedTime(rel_file, dsk)
        tree_cache_key == TreeCacheKey(rel_file, lois, mtime)
    IN  IF tree_cache_key \in DOMAIN rtc
        THEN [res |-> rtc[tree_cache_key], fcc |-> fcc, rtc |-> rtc,
              hit |-> TRUE, read |-> FALSE]
        ELSE LET stale == ContextIsStale(fcc, rel_file, mtime)
                 code == IF stale THEN dsk[rel_file].code
                                  ELSE fcc[rel_file].context.code
                 entry_mtime == IF stale THEN mtime ELSE fcc[rel_file].mtime
                 earlier == IF stale THEN {}
                            ELSE fcc[rel_file].context.lines_of_interest
                 context == [code |-> code,
                             lines_of_interest |-> earlier \cup SetOf(lois)]
                 res == Format(context.code, context.lines_of_interest)
             IN  [res |-> res,
                  fcc |-> Put(fcc, rel_file, [context |-> context, mtime |-> entry_mtime]),
                  rtc |-> Put(rtc, tree_cache_key, res),
                  hit |-> FALSE, read |-> stale]

\* Mutant of RenderTree: a miss drops the file's entries of rendered_tree_cache
\* that were stored under another modification time.
RenderTree_EvictsStale(rel_file, lois, dsk, fcc, rtc) ==
    LET mtime == GetModifiedTime(rel_file, dsk)
        tree_cache_key == TreeCacheKey(rel_file, lois, mtime)
    IN  IF tree_cache_key \in DOMAIN rtc
        THEN [res |-> rtc[tree_cache_key], fcc |-> fcc, rtc |-> rtc,
              hit |-> TRUE, read |-> FALSE]
        ELSE LET stale == ContextIsStale(fcc, rel_file, mtime)
                 code == IF stale THEN dsk[rel_file].code
                                  ELSE fcc[rel_file].context.code
                 entry_mtime == IF stale THEN mtime ELSE fcc[rel_file].mtime
                 context == [code |-> code, lines_of_interest |-> SetOf(lois)]
                 res == Format(context.code, context.lines_of_interest)
                 kept == {k \in DOMAIN rtc : k[1] # rel_file \/ k[3] = mtime}
             IN  [res |-> res,
                  fcc |-> Put(fcc, rel_file, [context |-> context, mtime |-> entry_mtime]),
                  rtc |-> Put([k \in kept |-> rtc[k]], tree_cache_key, res),
                  hit |-> FALSE, read |-> stale]

\* Mutant of RenderTree: the rendered cache is filled but not consulted, a call
\* whose key is present renders again from the file's context.
RenderTree_NoEarlyReturn(rel_file, lois, dsk, fcc, rtc) ==
    LET mtime == GetModifiedTime(rel_file, dsk)
        tree_cache_key == TreeCacheKey(rel_file, lois, mtime)
        stale == ContextIsStale(fcc, rel_file, mtime)
        code == IF stale THEN dsk[rel_file].code ELSE fcc[rel_file].context.code
        entry_mtime == IF stale THEN mtime ELSE fcc[rel_file].mtime
        context == [code |-> code, lines_of_interest |-> SetOf(lois)]
        res == Format(context.code, context.lines_of_interest)
    IN  [res |-> res,
         fcc |-> Put(fcc, rel_file, [context |-> context, mtime |-> entry_mtime]),
         rtc |-> Put(rtc, tree_cache_key, res),
         hit |-> tree_cache_key \in DOMAIN rtc, read |-> stale]

\* render_tree(abs_file, rel_file, lois) on caches fcc (file_context_cache) and
\* rtc (rendered_tree_cache): the text returned, the caches afterwards, and
\* whether the call hit the rendered cache and whether it read the file.
RenderTree(rel_file, lois, dsk, fcc, rtc) ==
    LET mtime == GetModifiedTime(rel_file, dsk)
        tree_cache_key == TreeCacheKey(rel_file, lois, mtime)
    IN  IF tree_cache_key \in DOMAIN rtc
        THEN [res |-> rtc[tree_cache_key], fcc |-> fcc, rtc |-> rtc,
              hit |-> TRUE, read |-> FALSE]
        ELSE LET stale == ContextIsStale(fcc, rel_file, mtime)
                 code == IF stale THEN dsk[rel_file].code
                                  ELSE fcc[rel_file].context.code
                 entry_mtime == IF stale THEN mtime ELSE fcc[rel_file].mtime
                 context == [code |-> code, lines_of_interest |-> SetOf(lois)]
                 res == Format(context.code, context.lines_of_interest)
             IN  [res |-> res,
                  fcc |-> Put(fcc, rel_file, [context |-> context, mtime |-> entry_mtime]),
                  rtc |-> Put(rtc, tree_cache_key, res),
                  hit |-> FALSE, read |-> stale]

----------------------------------------------------------------------------
(* SymbolNavigator.tag_list_to_tree *)

\* list(range(tag.start_line, tag.end_line + 1)) if use_end_line else [tag.start_line]
TagLois(tag, use_end_line) ==
    IF use_end_line
    THEN [i \in 1..(IF tag.end_line >= tag.start_line
                    THEN tag.end_line - tag.start_line + 1 ELSE 0)
            |-> tag.start_line + i - 1]
    ELSE <<tag.start_line>>

dummy_tag ==
    [rel_path |-> <<>>, node_content |-> <<>>, tag_kind |-> TagKind_DEF,
     start_line |-> 0, end_line |-> 0]

\* The record of one render_tree call, kept with the result of the query.
RenderCall(rel_file, lois, dsk, r) ==
    [rel |-> rel_file, lois |-> lois, hit |-> r.hit, read |-> r.read]

\* Mutant of FlushFile: a file without a line of interest is left out.
FlushFile_DropsEmpty(acc, dsk) ==
    IF acc.lois # <<>>
    THEN LET r == RenderTree(acc.cur_rel_file, acc.lois, dsk, acc.fcc, acc.rtc)
         IN  [acc EXCEPT !.output = @ \o <<acc.cur_rel_file \o <<58>> >> \o r.res,
                         !.fcc = r.fcc, !.rtc = r.rtc,
                         !.calls = Append(@, RenderCall(acc.cur_rel_file, acc.lois, dsk, r)),
                         !.lois = <<>>]
    ELSE acc

\* Mutant of FlushFile: lois is not emptied after a file is rendered.
FlushFile_KeepLois(acc, dsk) ==
    IF acc.lois # <<>>
    THEN LET r == RenderTree(acc.cur_rel_file, acc.lois, dsk, acc.fcc, acc.rtc)
         IN  [acc EXCEPT !.output = @ \o <<acc.cur_rel_file \o <<58>> >> \o r.res,
                         !.fcc = r.fcc, !.rtc = r.rtc,
                         !.calls = Append(@, RenderCall(acc.cur_rel_file, acc.lois, dsk, r))]
    ELSE IF acc.cur_rel_file # <<>>
    THEN [acc EXCEPT !.output = @ \o << <<>>, acc.cur_rel_file \o <<58>> >>]
    ELSE acc

\* The file-change branch of the loop body: flush the file collected so far.
FlushFile(acc, dsk) ==
    IF acc.lois # <<>>
    THEN LET r == RenderTree(acc.cur_rel_file, acc.lois, dsk, acc.fcc, acc.rtc)
         IN  [acc EXCEPT !.output = @ \o <<acc.cur_rel_file \o <<58>> >> \o r.res,
                         !.fcc = r.fcc, !.rtc = r.rtc,
                         !.calls = Append(@, RenderCall(acc.cur_rel_file, acc.lois, dsk, r)),
                         !.lois = <<>>]
    ELSE IF acc.cur_rel_file # <<>>
    THEN [acc EXCEPT !.output = @ \o << <<>>, acc.cur_rel_file \o <<58>> >>]
    ELSE acc

\* One iteration of  for tag in tags + [dummy_tag].
TreeStep(acc, tag, use_end_line, dsk) ==
    LET a == IF tag.rel_path # acc.cur_rel_file
             THEN [FlushFile(acc, dsk) EXCEPT !.cur_rel_file = tag.rel_path]
             ELSE acc
    IN  [a EXCEPT !.lois = @ \o TagLois(tag, use_end_line)]

RECURSIVE TreeLoop(_, _, _, _, _)
TreeLoop(acc, tags, i, use_end_line, dsk) ==
    IF i > Len(tags) THEN acc
    ELSE TreeLoop(TreeStep(acc, tags[i], use_end_line, dsk), tags, i + 1, use_end_line, dsk)

\* Mutant of TruncateLines: the lines are joined as they are.
TruncateLines_None(output) == output

\* '\n'.join(line[:150] for line in output.splitlines()): the lines of the
\* result, the last of them without its "\n".
TruncateLines(output) == [i \in 1..Len(output) |-> Truncate(output[i])]

\* tag_list_to_tree(tags, use_end_line): .output is the list of lines joined by
\* "\n" into the returned string ("" when there is none).
TagListToTree(tags, use_end_line, dsk, fcc, rtc) ==
    IF tags = <<>>
    THEN [output |-> <<>>, fcc |-> fcc, rtc |-> rtc, calls |-> <<>>]
    ELSE LET acc == TreeLoop([cur_rel_file |-> <<>>, lois |-> <<>>, output |-> <<>>,
                              fcc |-> fcc, rtc |-> rtc, calls |-> <<>>],
                             Append(tags, dummy_tag), 1, use_end_line, dsk)
         IN  [output |-> TruncateLines(acc.output), fcc |-> acc.fcc, rtc |-> acc.rtc,
              calls |-> acc.calls]

----------------------------------------------------------------------------
(* SymbolNavigator.get_definitions_tree and get_references_tree *)

\* Mutant of DefTags: the filter keeps a file only when it equals its path.
DefTags_ExactPath(idx, symbol, rel_file_path) ==
    IF symbol # <<>>
    THEN UNION { IF rel_file_path # NoPath /\ rel_file_path # def_rel
                 THEN {}
                 ELSE Get(idx.identwrel2deftags, <<def_rel, symbol>>, {})
                 : def_rel \in Get(idx.ident2defrels, symbol, {}) }
    ELSE {}

\* def_tags: the definition tags of `symbol` in the files the filter keeps.
DefTags(idx, symbol, rel_file_path) ==
    IF symbol # <<>>
    THEN UNION { IF rel_file_path # NoPath /\ ~IsSubstr(rel_file_path, def_rel)
                 THEN {}
                 ELSE Get(idx.identwrel2deftags, <<def_rel, symbol>>, {})
                 : def_rel \in Get(idx.ident2defrels, symbol, {}) }
    ELSE {}

\* ref_tags
RefTags(idx, symbol) ==
    UNION { Get(idx.identwrel2reftags, <<ref_rel, symbol>>, {})
            : ref_rel \in SetOf(Get(idx.ident2refrels, symbol, <<>>)) }

\* key=lambda tag: (tag.rel_path, tag.start_line)
KeyLess(t, u) ==
    IF t.rel_path = u.rel_path
    THEN t.start_line < u.start_line
    ELSE StrLess(t.rel_path, u.rel_path)

\* Mutant of SortedLists: the list is left in the set's iteration order.
SortedLists_Unsorted(tags) == TrackedFileLists(tags)

\* list(tags) followed by .sort(key=...): every list of the set's tags in
\* ascending key order; tags with equal keys keep the set's iteration order,
\* which is any order.
RECURSIVE SortedLists(_)
SortedLists(tags) ==
    IF tags = {} THEN {<<>>}
    ELSE UNION { {<<t>> \o rest : rest \in SortedLists(tags \ {t})}
                 : t \in {m \in tags : \A u \in tags : ~KeyLess(u, m)} }

\* "Definition(s) of `" symbol "`:"
DefinitionsHeader(symbol) ==
    <<68,101,102,105,110,105,116,105,111,110,40,115,41,32,111,102,32,96>>
        \o symbol \o <<96, 58>>

\* "References to `" symbol "`:"
ReferencesHeader(symbol) ==
    <<82,101,102,101,114,101,110,99,101,115,32,116,111,32,96>> \o symbol \o <<96, 58>>

\* The lines of  '\n' + header + '\n' + tree + '\n'  where tree is the joined
\* lines `tree_lines`.
WrapTree(header, tree_lines) ==
    << <<>>, header >> \o (IF tree_lines = <<>> THEN << <<>> >> ELSE tree_lines)

\* get_definitions_tree after the index is built and the tags are sorted.
DefinitionsTree(symbol, def_tags_list, use_end_line, dsk, fcc, rtc) ==
    LET t == TagListToTree(def_tags_list, use_end_line, dsk, fcc, rtc)
    IN  [t EXCEPT !.output = WrapTree(DefinitionsHeader(symbol), t.output)]

\* get_references_tree after the index is built and the tags are sorted.
ReferencesTree(symbol, ref_tags_list, dsk, fcc, rtc) ==
    LET t == TagListToTree(ref_tags_list, FALSE, dsk, fcc, rtc)
    IN  [t EXCEPT !.output = WrapTree(ReferencesHeader(symbol), t.output)]

----------------------------------------------------------------------------
(* State *)

envVars == <<disk, tracked, gitOk, edits>>
cacheVars == <<file_context_cache, rendered_tree_cache>>
callVars == <<op, repeat, samePrev, bothChanged, lastRender>>
crudVars == <<fault, filesystem, file_history, undoable, last>>

NeverRendered == [code |-> 0, mtime |-> 0]

Call(cmd, symbol, path, outcome, output, calls) ==
    [cmd |-> cmd, symbol |-> symbol, path |-> path, outcome |-> outcome,
     output |-> output, calls |-> calls]

InitDisk ==
    [p \in Paths |->
        [code |-> IF p = PathA THEN 1 ELSE IF p = PathLong THEN 2 ELSE 3, mtime |-> 1]]

\* The files the editor commands are given: PathF exists, PathN does not.
PathF == <<102>>
PathN == <<110>>
EditPaths == {PathF, PathN}

\* A path with no file.
Absent == <<-2>>

\* "aaa\nb\t\n": the content of PathF at the start.
InitFiles ==
    [p \in EditPaths |-> IF p = PathF THEN <<97, 97, 97, 10, 98, 9, 10>> ELSE Absent]

\* No edit command was given yet.
NoLine == -100
NoEdit ==
    [cmd |-> "none", path |-> NoPath, outcome |-> "ok", before |-> Absent,
     insert_line |-> NoLine]

\* The threads that call render_tree on the one navigator.
Threads == {1, 2}

\* A thread's local `context` before it is bound: no handle.
NoContext == [shared |-> FALSE, code |-> 0, lines_of_interest |-> {}]

\* The frame of a thread that is in no render_tree call and made none.
IdleFrame ==
    [pc |-> "idle", rel_file |-> NoPath, lois |-> <<>>, mtime |-> 0,
     context |-> NoContext, res |-> <<>>, returned |-> FALSE]

\* A new SymbolNavigator over a tree of three tracked files, and a new editor;
\* nothing called yet.
Init ==
    /\ disk = InitDisk
    /\ tracked = <<PathA, PathLong, PathB>>
    /\ gitOk = TRUE
    /\ editorUp = TRUE
    /\ file_context_cache = EmptyDict
    /\ rendered_tree_cache = EmptyDict
    /\ index = EmptyIndex
    /\ op = Call("init", <<>>, NoPath, "ok", <<>>, <<>>)
    /\ repeat = FALSE
    /\ samePrev = FALSE
    /\ changed = FALSE
    /\ bothChanged = FALSE
    /\ lastRender = [p \in Paths |-> NeverRendered]
    /\ edits = 0
    /\ fault = [p \in Paths |-> "none"]
    /\ filesystem = InitFiles
    /\ file_history = [p \in EditPaths |-> <<>>]
    /\ undoable = [p \in EditPaths |-> <<>>]
    /\ last = NoEdit
    /\ threads = [frame |-> [t \in Threads |-> IdleFrame], interleaved |-> FALSE]

\* A query returned r: record the call and keep the caches it left.
Returned(cmd, symbol, path, r) ==
    /\ op' = Call(cmd, symbol, path, "ok", r.output, r.calls)
    /\ file_context_cache' = r.fcc
    /\ rendered_tree_cache' = r.rtc
    /\ repeat' = (~changed /\ op.outcome = "ok" /\ op.cmd = cmd
                  /\ op.symbol = symbol /\ op.path = path)
    /\ samePrev' = (op.output = r.output)
    /\ changed' = FALSE
    /\ lastRender' = [p \in Paths |->
                        IF \E i \in DOMAIN r.calls : r.calls[i].rel = p
                        THEN disk[p] ELSE lastRender[p]]
    /\ UNCHANGED <<crudVars, threads, envVars, editorUp, index, bothChanged>>

\* A call raised: nothing it touched is kept.
Raised(cmd, symbol, path, exception) ==
    /\ op' = Call(cmd, symbol, path, exception, <<>>, <<>>)
    /\ repeat' = FALSE
    /\ samePrev' = FALSE
    /\ changed' = FALSE
    /\ UNCHANGED <<crudVars, threads, envVars, editorUp, cacheVars, index, bothChanged, lastRender>>

\* The body of get_definitions_tree(symbol, rel_file_path) called as `cmd`.
DefinitionsQuery(cmd, symbol, rel_file_path) ==
    LET idx == GetParsedTags(tracked, disk)
    IN  \E def_tags_list \in SortedLists(DefTags(idx, symbol, rel_file_path)) :
           Returned(cmd, symbol, rel_file_path,
                    DefinitionsTree(symbol, def_tags_list, TRUE, disk,
                                    file_context_cache, rendered_tree_cache))

\* The body of get_references_tree(symbol) called as `cmd`.
ReferencesQuery(cmd, symbol) ==
    LET idx == GetParsedTags(tracked, disk)
    IN  \E ref_tags_list \in SortedLists(RefTags(idx, symbol)) :
           Returned(cmd, symbol, NoPath,
                    ReferencesTree(symbol, ref_tags_list, disk,
                                   file_context_cache, rendered_tree_cache))

----------------------------------------------------------------------------
(* The navigator's queries on a tree that is edited between them *)

\* navigator.get_definitions_tree(symbol, rel_file_path)
GetDefinitionsTree(symbol, rel_file_path) ==
    /\ editorUp /\ gitOk
    /\ DefinitionsQuery("get_definitions_tree", symbol, rel_file_path)

\* navigator.get_references_tree(symbol)
GetReferencesTree(symbol) ==
    /\ editorUp /\ gitOk
    /\ ReferencesQuery("get_references_tree", symbol)

\* The file p is edited: its content becomes `code` and the clock has advanced.
WriteFile(p, code) ==
    /\ edits < MaxEdits
    /\ code # disk[p].code
    /\ disk' = [disk EXCEPT ![p] = [code |-> code, mtime |-> disk[p].mtime + 1]]
    /\ changed' = TRUE
    /\ edits' = edits + 1
    /\ UNCHANGED <<crudVars, threads, tracked, gitOk, editorUp, cacheVars, index, callVars>>

Symbols == {SymF, SymLong}
Filters == {NoPath, PathB}

Next ==
    \/ \E symbol \in Symbols, f \in Filters : GetDefinitionsTree(symbol, f)
    \/ \E symbol \in Symbols : GetReferencesTree(symbol)
    \/ \E p \in Paths, code \in Codes : WriteFile(p, code)

Spec == Init /\ [][Next]_vars

----------------------------------------------------------------------------
(* get_parsed_tags on a tree whose files and tracked list change *)

\* navigator.get_parsed_tags()
GetParsedTagsCall ==
    /\ editorUp /\ gitOk
    /\ index' = GetParsedTags(tracked, disk)
    /\ op' = Call("get_parsed_tags", <<>>, NoPath, "ok", <<>>, <<>>)
    /\ changed' = FALSE
    /\ UNCHANGED <<crudVars, threads, envVars, editorUp, cacheVars, repeat, samePrev, bothChanged, lastRender>>

\* Files are added to or removed from version control, or listed in another order.
SetTracked(files) ==
    /\ files # tracked
    /\ tracked' = files
    /\ changed' = TRUE
    /\ UNCHANGED <<crudVars, threads, disk, gitOk, edits, editorUp, cacheVars, index, callVars>>

NextIndex ==
    \/ GetParsedTagsCall
    \/ \E fs \in SUBSET Paths : \E files \in TrackedFileLists(fs) : SetTracked(files)
    \/ \E p \in Paths, code \in Codes : WriteFile(p, code)

SpecIndex == Init /\ [][NextIndex]_vars

----------------------------------------------------------------------------
(* render_tree called directly on a file whose content and modification     *)
(* time are set freely (an edit, a touch, a restore of an older file)       *)

Mtimes == {1, 2}
RenderPaths == {PathA}
RenderCodes == {1, 2}
LoisLists == { <<1>>, <<1, 2>>, <<2, 1, 2>> }

\* navigator.render_tree(abs_file, rel_file, lois)
RenderTreeCall(rel_file, lois) ==
    /\ editorUp
    /\ LET r == RenderTree(rel_file, lois, disk, file_context_cache, rendered_tree_cache)
       IN  /\ op' = Call("render_tree", <<>>, rel_file, "ok", r.res,
                         <<RenderCall(rel_file, lois, disk, r)>>)
           /\ file_context_cache' = r.fcc
           /\ rendered_tree_cache' = r.rtc
    /\ bothChanged' = (/\ lastRender[rel_file] # NeverRendered
                       /\ lastRender[rel_file].code # disk[rel_file].code
                       /\ lastRender[rel_file].mtime # disk[rel_file].mtime)
    /\ lastRender' = [lastRender EXCEPT ![rel_file] = disk[rel_file]]
    /\ changed' = FALSE
    /\ UNCHANGED <<crudVars, threads, envVars, editorUp, index, repeat, samePrev>>

\* The file p gets content `code` and modification time `mtime`.
SetFile(p, code, mtime) ==
    /\ [code |-> code, mtime |-> mtime] # disk[p]
    /\ disk' = [disk EXCEPT ![p] = [code |-> code, mtime |-> mtime]]
    /\ changed' = TRUE
    /\ UNCHANGED <<crudVars, threads, tracked, gitOk, edits, editorUp, cacheVars, index, callVars>>

NextRender ==
    \/ \E p \in RenderPaths, lois \in LoisLists : RenderTreeCall(p, lois)
    \/ \E p \in RenderPaths, code \in RenderCodes, mtime \in Mtimes : SetFile(p, code, mtime)

SpecRender == Init /\ [][NextRender]_vars

----------------------------------------------------------------------------
(* The queries on a tree whose tracked files and contents change *)

\* The lists of tracked files: all three, two of them in another order, one.
TreeFileLists == {<<PathA, PathLong, PathB>>, <<PathB, PathA>>, <<PathLong>>}

\* The edits of the tree: <<file, new content, new modification time>>.
TreeChanges == {<<PathLong, 3, 2>>, <<PathB, 1, 2>>}

NextTree ==
    \/ GetDefinitionsTree(SymF, NoPath)
    \/ GetReferencesTree(SymG)
    \/ GetParsedTagsCall
    \/ \E files \in TreeFileLists : SetTracked(files)
    \/ \E c \in TreeChanges : SetFile(c[1], c[2], c[3])

SpecTree == Init /\ [][NextTree]_vars

----------------------------------------------------------------------------
(* render_tree called by two threads on one navigator: every statement of   *)
(* the method that reads or writes the caches or the context is a step, and *)
(* the steps of the two calls interleave freely.  A thread's `context` is   *)
(* either the object the file's file_context_cache entry holds (shared) or  *)
(* an object that only this thread holds.                                   *)

ThreadPaths == {PathA}
ThreadLois == { <<1>>, <<2, 3>> }

Frame(t) == threads.frame[t]

\* The thread's `context` is the object in file_context_cache[rel_file].
SharedContext == [shared |-> TRUE, code |-> 0, lines_of_interest |-> {}]

\* The object the thread's `context` is bound to.
ContextOf(t) ==
    IF Frame(t).context.shared
    THEN file_context_cache[Frame(t).rel_file].context
    ELSE [code |-> Frame(t).context.code,
          lines_of_interest |-> Frame(t).context.lines_of_interest]

\* What the steps of render_tree leave alone.
UnchangedByThreads ==
    UNCHANGED <<crudVars, envVars, editorUp, index, callVars, changed>>

\* Thread t assigns `lines` to its context's lines_of_interest and goes to pc.
SetLinesOfInterest(t, lines, pc) ==
    IF Frame(t).context.shared
    THEN /\ file_context_cache' =
               [file_context_cache EXCEPT
                   ![Frame(t).rel_file].context.lines_of_interest = lines]
         /\ threads' = [threads EXCEPT !.frame[t].pc = pc]
    ELSE /\ threads' = [threads EXCEPT !.frame[t].pc = pc,
                                     !.frame[t].context.lines_of_interest = lines]
         /\ UNCHANGED file_context_cache

\* Thread t calls render_tree(abs_file, rel_file, lois):
\* mtime = get_modified_time(abs_file) and the key is formed.
ThreadCall(t, rel_file, lois) ==
    /\ editorUp
    /\ Frame(t).pc = "idle"
    /\ threads' =
          [frame |-> [threads.frame EXCEPT ![t] =
                         [pc |-> "check", rel_file |-> rel_file, lois |-> lois,
                          mtime |-> GetModifiedTime(rel_file, disk),
                          context |-> NoContext, res |-> <<>>, returned |-> FALSE]],
           interleaved |-> \/ threads.interleaved
                           \/ \E u \in Threads \ {t} : Frame(u).pc # "idle"]
    /\ UNCHANGED cacheVars
    /\ UnchangedByThreads

\* if tree_cache_key in self.rendered_tree_cache: return the stored text
ThreadCheck(t) ==
    /\ Frame(t).pc = "check"
    /\ LET key == TreeCacheKey(Frame(t).rel_file, Frame(t).lois, Frame(t).mtime)
       IN  threads' =
              IF key \in DOMAIN rendered_tree_cache
              THEN [threads EXCEPT !.frame[t].pc = "idle",
                                   !.frame[t].res = rendered_tree_cache[key],
                                   !.frame[t].returned = TRUE]
              ELSE [threads EXCEPT !.frame[t].pc = "stale"]
    /\ UNCHANGED cacheVars
    /\ UnchangedByThreads

\* if rel_file not in self.file_context_cache or ...['mtime'] < mtime
ThreadStale(t) ==
    /\ Frame(t).pc = "stale"
    /\ threads' =
          [threads EXCEPT !.frame[t].pc =
              IF ContextIsStale(file_context_cache, Frame(t).rel_file, Frame(t).mtime)
              THEN "read" ELSE "reuse"]
    /\ UNCHANGED cacheVars
    /\ UnchangedByThreads

\* code = read_text(abs_file); context = TreeContext(code=code, ...)
ThreadRead(t) ==
    /\ Frame(t).pc = "read"
    /\ threads' =
          [threads EXCEPT !.frame[t].pc = "store_context",
                          !.frame[t].context =
                              [shared |-> FALSE, code |-> disk[Frame(t).rel_file].code,
                               lines_of_interest |-> {}]]
    /\ UNCHANGED cacheVars
    /\ UnchangedByThreads

\* self.file_context_cache[rel_file] = {'context': context, 'mtime': mtime}:
\* the thread's object becomes the shared one; a thread that holds the object
\* replaced keeps it as an object of its own.
ThreadStoreContext(t) ==
    /\ Frame(t).pc = "store_context"
    /\ file_context_cache' =
          Put(file_context_cache, Frame(t).rel_file,
              [context |-> ContextOf(t), mtime |-> Frame(t).mtime])
    /\ threads' =
          [threads EXCEPT !.frame =
              [u \in Threads |->
                  IF u = t
                  THEN [Frame(t) EXCEPT !.pc = "reset", !.context = SharedContext]
                  ELSE IF Frame(u).context.shared /\ Frame(u).rel_file = Frame(t).rel_file
                  THEN [Frame(u) EXCEPT !.context =
                           [shared |-> FALSE, code |-> ContextOf(u).code,
                            lines_of_interest |-> ContextOf(u).lines_of_interest]]
                  ELSE Frame(u)]]
    /\ UNCHANGED rendered_tree_cache
    /\ UnchangedByThreads

\* context = self.file_context_cache[rel_file]['context']
ThreadReuse(t) ==
    /\ Frame(t).pc = "reuse"
    /\ threads' = [threads EXCEPT !.frame[t].pc = "reset",
                                  !.frame[t].context = SharedContext]
    /\ UNCHANGED cacheVars
    /\ UnchangedByThreads

\* Mutant of ThreadReset: the lines of interest are not emptied.
ThreadReset_KeepsLines(t) ==
    /\ Frame(t).pc = "reset"
    /\ SetLinesOfInterest(t, ContextOf(t).lines_of_interest, "add")
    /\ UNCHANGED rendered_tree_cache
    /\ UnchangedByThreads

\* context.lines_of_interest = set()
ThreadReset(t) ==
    /\ Frame(t).pc = "reset"
    /\ SetLinesOfInterest(t, {}, "add")
    /\ UNCHANGED rendered_tree_cache
    /\ UnchangedByThreads

\* context.add_lines_of_interest(lois)
ThreadAdd(t) ==
    /\ Frame(t).pc = "add"
    /\ SetLinesOfInterest(t, ContextOf(t).lines_of_interest \cup SetOf(Frame(t).lois),
                          "format")
    /\ UNCHANGED rendered_tree_cache
    /\ UnchangedByThreads

\* context.add_context(); res = context.format()
ThreadFormat(t) ==
    /\ Frame(t).pc = "format"
    /\ threads' =
          [threads EXCEPT !.frame[t].pc = "store",
                          !.frame[t].res =
                              Format(ContextOf(t).code, ContextOf(t).lines_of_interest)]
    /\ UNCHANGED cacheVars
    /\ UnchangedByThreads

\* self.rendered_tree_cache[tree_cache_key] = res
ThreadStore(t) ==
    /\ Frame(t).pc = "store"
    /\ rendered_tree_cache' =
          Put(rendered_tree_cache,
              TreeCacheKey(Frame(t).rel_file, Frame(t).lois, Frame(t).mtime),
              Frame(t).res)
    /\ threads' = [threads EXCEPT !.frame[t].pc = "return"]
    /\ UNCHANGED file_context_cache
    /\ UnchangedByThreads

\* return res
ThreadReturn(t) ==
    /\ Frame(t).pc = "return"
    /\ threads' = [threads EXCEPT !.frame[t].pc = "idle",
                                  !.frame[t].context = NoContext,
                                  !.frame[t].returned = TRUE]
    /\ UNCHANGED cacheVars
    /\ UnchangedByThreads

NextThreads ==
    \/ \E t \in Threads, p \in ThreadPaths, lois \in ThreadLois : ThreadCall(t, p, lois)
    \/ \E t \in Threads : ThreadCheck(t)
    \/ \E t \in Threads : ThreadStale(t)
    \/ \E t \in Threads : ThreadRead(t)
    \/ \E t \in Threads : ThreadStoreContext(t)
    \/ \E t \in Threads : ThreadReuse(t)
    \/ \E t \in Threads : ThreadReset(t)
    \/ \E t \in Threads : ThreadAdd(t)
    \/ \E t \in Threads : ThreadFormat(t)
    \/ \E t \in Threads : ThreadStore(t)
    \/ \E t \in Threads : ThreadReturn(t)

SpecThreads == Init /\ [][NextThreads]_vars

----------------------------------------------------------------------------
(* The editor's navigation commands (editor.py) *)

\* OHEditor(workspace): a new history and a new SymbolNavigator, whose
\* constructor builds GitRepoUtils(root); that raises outside a repository.
NewEditor ==
    /\ editorUp' = gitOk
    /\ file_context_cache' = EmptyDict
    /\ rendered_tree_cache' = EmptyDict
    /\ op' = Call("__init__", <<>>, NoPath, IF gitOk THEN "ok" ELSE "Exception", <<>>, <<>>)
    /\ repeat' = FALSE
    /\ samePrev' = FALSE
    /\ changed' = TRUE
    /\ UNCHANGED <<crudVars, threads, envVars, index, bothChanged, lastRender>>

\* The repository disappears from, or appears in, the workspace.
GitChange ==
    /\ gitOk' = ~gitOk
    /\ changed' = TRUE
    /\ UNCHANGED <<crudVars, threads, disk, tracked, edits, editorUp, cacheVars, index, callVars>>

\* validate_path(command, path) for a command other than create: the path exists.
PathIsValid(path) == path \in Paths

\* editor(command='jump_to_definition', path=path, symbol_name=symbol_name)
JumpToDefinition(path, symbol_name) ==
    /\ editorUp
    /\ IF path # NoPath /\ ~PathIsValid(path)
       THEN Raised("jump_to_definition", symbol_name, path, "EditorToolParameterInvalidError")
       ELSE IF symbol_name = <<>>
       THEN Raised("jump_to_definition", symbol_name, path, "EditorToolParameterMissingError")
       ELSE IF ~gitOk
       THEN Raised("jump_to_definition", symbol_name, path, "Exception")
       ELSE DefinitionsQuery("jump_to_definition", symbol_name, path)

\* editor(command='find_references', symbol_name=symbol_name)
FindReferences(symbol_name) ==
    /\ editorUp
    /\ IF symbol_name = <<>>
       THEN Raised("find_references", symbol_name, NoPath, "EditorToolParameterMissingError")
       ELSE IF ~gitOk
       THEN Raised("find_references", symbol_name, NoPath, "Exception")
       ELSE ReferencesQuery("find_references", symbol_name)

EditorSymbols == {SymF, SymFx, SymLong, SymEmpty}
EditorPaths == {NoPath, PathB, <<99>>}

NextEditor ==
    \/ NewEditor
    \/ GitChange
    \/ \E path \in EditorPaths, s \in EditorSymbols : JumpToDefinition(path, s)
    \/ \E s \in EditorSymbols : FindReferences(s)

SpecEditor == Init /\ [][NextEditor]_vars

----------------------------------------------------------------------------
(* The navigator's queries on a tree in which the extraction of a file's   *)
(* tags fails, or a file indexed by the query is gone when it is rendered  *)

\* self.ts_parser.get_tags_from_file(abs_file, rel_file) raises for the file.
ExtractionFails(rel_file) == fault[rel_file] = "extract"

\* get_modified_time(abs_file) raises for the file: it was deleted after
\* get_parsed_tags indexed it.
RenderReadFails(rel_file) == fault[rel_file] = "render"

\* The files of a sorted tag list for which tag_list_to_tree calls render_tree
\* (they have a line of interest) and render_tree raises.
FailingFiles(tags, use_end_line) ==
    {tags[i].rel_path : i \in {j \in DOMAIN tags :
        RenderReadFails(tags[j].rel_path) /\ TagLois(tags[j], use_end_line) # <<>>}}

\* The tags tag_list_to_tree has flushed when render_tree first raises: those
\* of the files before the first failing file.
TagsBeforeFailure(tags, use_end_line) ==
    LET failing == FailingFiles(tags, use_end_line)
        first == CHOOSE p \in failing : \A q \in failing : ~StrLess(q, p)
        Before(t) == StrLess(t.rel_path, first)
    IN  SelectSeq(tags, Before)

\* A query raised inside tag_list_to_tree: the caches keep what the render_tree
\* calls before the failing one stored (r is the tree of the files before it).
RaisedAfter(cmd, symbol, path, exception, r) ==
    /\ op' = Call(cmd, symbol, path, exception, <<>>, r.calls)
    /\ file_context_cache' = r.fcc
    /\ rendered_tree_cache' = r.rtc
    /\ repeat' = FALSE
    /\ samePrev' = FALSE
    /\ changed' = FALSE
    /\ lastRender' = [p \in Paths |->
                        IF \E i \in DOMAIN r.calls : r.calls[i].rel = p
                        THEN disk[p] ELSE lastRender[p]]
    /\ UNCHANGED <<crudVars, threads, envVars, editorUp, index, bothChanged>>

\* get_parsed_tags has no handler around get_tags_from_file (line 61).
SomeExtractionFails == \E i \in DOMAIN tracked : ExtractionFails(tracked[i])

\* navigator.get_parsed_tags()
GetParsedTagsOrFail ==
    /\ editorUp /\ gitOk
    /\ IF SomeExtractionFails
       THEN /\ op' = Call("get_parsed_tags", <<>>, NoPath, "Exception", <<>>, <<>>)
            /\ UNCHANGED index
       ELSE /\ op' = Call("get_parsed_tags", <<>>, NoPath, "ok", <<>>, <<>>)
            /\ index' = GetParsedTags(tracked, disk)
    /\ changed' = FALSE
    /\ UNCHANGED <<crudVars, threads, envVars, editorUp, cacheVars, repeat, samePrev,
                   bothChanged, lastRender>>

\* navigator.get_definitions_tree(symbol, rel_file_path)
GetDefinitionsTreeOrFail(symbol, rel_file_path) ==
    /\ editorUp /\ gitOk
    /\ IF SomeExtractionFails
       THEN Raised("get_definitions_tree", symbol, rel_file_path, "Exception")
       ELSE \E def_tags_list \in
                 SortedLists(DefTags(GetParsedTags(tracked, disk), symbol, rel_file_path)) :
               IF FailingFiles(def_tags_list, TRUE) = {}
               THEN Returned("get_definitions_tree", symbol, rel_file_path,
                             DefinitionsTree(symbol, def_tags_list, TRUE, disk,
                                             file_context_cache, rendered_tree_cache))
               ELSE RaisedAfter("get_definitions_tree", symbol, rel_file_path, "Exception",
                                TagListToTree(TagsBeforeFailure(def_tags_list, TRUE), TRUE,
                                              disk, file_context_cache, rendered_tree_cache))

\* navigator.get_references_tree(symbol)
GetReferencesTreeOrFail(symbol) ==
    /\ editorUp /\ gitOk
    /\ IF SomeExtractionFails
       THEN Raised("get_references_tree", symbol, NoPath, "Exception")
       ELSE \E ref_tags_list \in SortedLists(RefTags(GetParsedTags(tracked, disk), symbol)) :
               IF FailingFiles(ref_tags_list, FALSE) = {}
               THEN Returned("get_references_tree", symbol, NoPath,
                             ReferencesTree(symbol, ref_tags_list, disk,
                                            file_context_cache, rendered_tree_cache))
               ELSE RaisedAfter("get_references_tree", symbol, NoPath, "Exception",
                                TagListToTree(TagsBeforeFailure(ref_tags_list, FALSE), FALSE,
                                              disk, file_context_cache, rendered_tree_cache))

\* The extraction of a file starts or stops failing, or the file is deleted
\* under the query or is back.
SetFault(p, f) ==
    /\ fault[p] # f
    /\ fault' = [fault EXCEPT ![p] = f]
    /\ changed' = TRUE
    /\ UNCHANGED <<filesystem, file_history, undoable, last, threads, envVars, editorUp, cacheVars, index,
                   callVars>>

Faults == {"none", "extract", "render"}
FaultPaths == {PathA, PathLong}
FaultSymbols == {SymF}

NextFault ==
    \/ GetParsedTagsOrFail
    \/ \E symbol \in FaultSymbols : GetDefinitionsTreeOrFail(symbol, NoPath)
    \/ \E symbol \in FaultSymbols : GetReferencesTreeOrFail(symbol)
    \/ \E p \in FaultPaths, f \in Faults : SetFault(p, f)

SpecFault == Init /\ [][NextFault]_vars

----------------------------------------------------------------------------
(* Strings of the editor: str.expandtabs, str.count, str.replace, str.split *)

Tab == 9
Newline == 10
Space == 32
TabSize == 8

\* s.expandtabs() from position i on, col being the column reached.
RECURSIVE ExpandFrom(_, _, _)
ExpandFrom(s, i, col) ==
    IF i > Len(s) THEN <<>>
    ELSE IF s[i] = Tab
         THEN LET n == TabSize - (col % TabSize)
              IN  Rep(Space, n) \o ExpandFrom(s, i + 1, col + n)
    ELSE IF s[i] = Newline THEN <<s[i]>> \o ExpandFrom(s, i + 1, 0)
    ELSE <<s[i]>> \o ExpandFrom(s, i + 1, col + 1)

ExpandTabs(s) == ExpandFrom(s, 1, 0)

\* sub occurs in s at position i.
OccursAt(s, sub, i) ==
    /\ i >= 1 /\ i + Len(sub) - 1 <= Len(s)
    /\ SubSeq(s, i, i + Len(sub) - 1) = sub

\* s.count(sub) for a non-empty sub: the occurrences found from left to right,
\* each search starting after the end of the occurrence before.
RECURSIVE CountFrom(_, _, _)
CountFrom(s, sub, i) ==
    IF i + Len(sub) - 1 > Len(s) THEN 0
    ELSE IF OccursAt(s, sub, i) THEN 1 + CountFrom(s, sub, i + Len(sub))
    ELSE CountFrom(s, sub, i + 1)

StrCount(s, sub) == CountFrom(s, sub, 1)

\* s.replace(old, new) for a non-empty old.
RECURSIVE ReplaceFrom(_, _, _, _)
ReplaceFrom(s, old, new, i) ==
    IF i > Len(s) THEN <<>>
    ELSE IF OccursAt(s, old, i) THEN new \o ReplaceFrom(s, old, new, i + Len(old))
    ELSE <<s[i]>> \o ReplaceFrom(s, old, new, i + 1)

StrReplaceAll(s, old, new) == ReplaceFrom(s, old, new, 1)

\* s.split('\n'): the pieces between the newlines, one more than the newlines.
RECURSIVE SplitFrom(_, _, _)
SplitFrom(s, i, piece) ==
    IF i > Len(s) THEN <<piece>>
    ELSE IF s[i] = Newline THEN <<piece>> \o SplitFrom(s, i + 1, <<>>)
    ELSE SplitFrom(s, i + 1, Append(piece, s[i]))

SplitLines(s) == SplitFrom(s, 1, <<>>)

\* '\n'.join(lines)
RECURSIVE JoinLines(_)
JoinLines(lines) ==
    IF lines = <<>> THEN <<>>
    ELSE IF Len(lines) = 1 THEN lines[1]
    ELSE lines[1] \o <<Newline>> \o JoinLines(Tail(lines))

----------------------------------------------------------------------------
(* The editor's commands on files (editor.py): create, str_replace, insert, *)
(* undo_edit, and the path check every command with a path starts with     *)

\* An argument that was not given (None).
NotGiven == <<-3>>

MaxHistory == 3

Exists(path) == filesystem[path] # Absent

\* The record of an edit command: the command, its path, its outcome, the
\* file's content when it was called, and the insert_line of an insert.
Edit(cmd, path, outcome, insert_line) ==
    [cmd |-> cmd, path |-> path, outcome |-> outcome, before |-> filesystem[path],
     insert_line |-> insert_line]

\* Mutant of ValidatePathRaises: create is let through on an existing path.
ValidatePathRaises_CreateOverwrites(command, path) ==
    command # "create" /\ ~Exists(path)

\* validate_path(command, path) raises (absolute paths of files only).
ValidatePathRaises(command, path) ==
    \/ command = "create" /\ Exists(path)
    \/ command # "create" /\ ~Exists(path)

\* Mutant of PopulatedHistory: no baseline is recorded.
PopulatedHistory_NoBaseline(path) == file_history[path]

\* _populate_file_history_if_having_content_before_edit(path)
PopulatedHistory(path) ==
    IF Len(file_history[path]) > 0 \/ ~Exists(path)
    THEN file_history[path]
    ELSE <<filesystem[path]>>

\* What is there to undo after a successful command: str_replace and insert
\* put the content they found on top, create puts nothing.
Edited(cmd, path) ==
    IF cmd = "create"
    THEN undoable
    ELSE [undoable EXCEPT ![path] = Append(@, filesystem[path])]

\* What is there to undo after a successful undo_edit: the top is taken off.
Undone(path) == [undoable EXCEPT ![path] = SubSeq(@, 1, Len(@) - 1)]

\* The command raised `exception`, having left the history as `history`.
RejectedAt(cmd, path, exception, history, insert_line) ==
    /\ last' = Edit(cmd, path, exception, insert_line)
    /\ file_history' = [file_history EXCEPT ![path] = history]
    /\ UNCHANGED <<filesystem, undoable>>

\* Mutant of WrittenAt: the text is written and not appended to the history.
WrittenAt_NotRecorded(cmd, path, text, history, insert_line) ==
    /\ last' = Edit(cmd, path, "ok", insert_line)
    /\ filesystem' = [filesystem EXCEPT ![path] = text]
    /\ file_history' = [file_history EXCEPT ![path] = history]
    /\ undoable' = Edited(cmd, path)

\* write_file(path, text) and self._file_history[path].append(text) on the
\* history `history`.
WrittenAt(cmd, path, text, history, insert_line) ==
    /\ last' = Edit(cmd, path, "ok", insert_line)
    /\ filesystem' = [filesystem EXCEPT ![path] = text]
    /\ file_history' = [file_history EXCEPT ![path] = Append(history, text)]
    /\ undoable' = Edited(cmd, path)

Rejected(cmd, path, exception, history) ==
    RejectedAt(cmd, path, exception, history, NoLine)

Written(cmd, path, text, history) == WrittenAt(cmd, path, text, history, NoLine)

otherVars == <<fault, threads, envVars, editorUp, cacheVars, index, callVars, changed>>

\* editor(command='create', path=path, file_text=file_text)
Create(path, file_text) ==
    /\ editorUp
    /\ IF ValidatePathRaises("create", path)
       THEN Rejected("create", path, "EditorToolParameterInvalidError",
                     file_history[path])
       ELSE IF file_text = NotGiven \/ file_text = <<>>
       THEN Rejected("create", path, "RuntimeError", file_history[path])
       ELSE Written("create", path, file_text, file_history[path])
    /\ UNCHANGED otherVars

\* editor(command='str_replace', path=path, old_str=old_str, new_str=new_str)
StrReplace(path, old_str, new_str) ==
    /\ editorUp
    /\ Len(file_history[path]) < MaxHistory
    /\ IF ValidatePathRaises("str_replace", path)
       THEN Rejected("str_replace", path, "EditorToolParameterInvalidError",
                     file_history[path])
       ELSE IF old_str = NotGiven \/ old_str = <<>>
       THEN Rejected("str_replace", path, "EditorToolParameterMissingError",
                     file_history[path])
       ELSE LET file_content == filesystem[path]
                old == ExpandTabs(old_str)
                new == IF new_str = NotGiven THEN <<>> ELSE ExpandTabs(new_str)
                occurrences == StrCount(file_content, old)
            IN  IF occurrences = 0 \/ occurrences > 1
                THEN Rejected("str_replace", path, "ToolError", PopulatedHistory(path))
                ELSE Written("str_replace", path, StrReplaceAll(file_content, old,
                             new), PopulatedHistory(path))
    /\ UNCHANGED otherVars

\* The lines of the file after insert: file_text_lines[:insert_line] +
\* new_str_lines + file_text_lines[insert_line:], joined by "\n" (for an
\* insert_line that is not negative; a slice past the end is empty).
InsertedText(file_text, insert_line, new_str) ==
    LET file_text_lines == SplitLines(file_text)
        new_str_lines == SplitLines(new_str)
        k == Min(insert_line, Len(file_text_lines))
    IN  JoinLines(SubSeq(file_text_lines, 1, k) \o new_str_lines
                  \o SubSeq(file_text_lines, k + 1, Len(file_text_lines)))

\* Mutant of InsertLineInvalid: a line past the end of the file is accepted.
InsertLineInvalid_NoUpperBound(insert_line, num_lines) == insert_line < 0

\* insert_line < 0 or insert_line > num_lines
InsertLineInvalid(insert_line, num_lines) == insert_line < 0 \/ insert_line > num_lines

\* editor(command='insert', path=path, insert_line=insert_line, new_str=new_str)
Insert(path, insert_line, new_str) ==
    /\ editorUp
    /\ Len(file_history[path]) < MaxHistory
    /\ IF ValidatePathRaises("insert", path)
       THEN RejectedAt("insert", path, "EditorToolParameterInvalidError",
                       file_history[path], insert_line)
       ELSE IF insert_line = NoLine \/ new_str = NotGiven \/ new_str = <<>>
       THEN RejectedAt("insert", path, "EditorToolParameterMissingError",
                       file_history[path], insert_line)
       ELSE LET file_text == ExpandTabs(filesystem[path])
                new == ExpandTabs(new_str)
                num_lines == Len(SplitLines(file_text))
            IN  IF InsertLineInvalid(insert_line, num_lines)
                THEN RejectedAt("insert", path, "EditorToolParameterInvalidError",
                                PopulatedHistory(path), insert_line)
                ELSE WrittenAt("insert", path,
                               InsertedText(file_text, insert_line, new),
                               PopulatedHistory(path), insert_line)
    /\ UNCHANGED otherVars

\* Mutant of UndoEdit: only an empty history is refused, and the baseline is
\* popped like an edit.
UndoEdit_PopsBaseline(path) ==
    /\ editorUp
    /\ IF ValidatePathRaises("undo_edit", path)
       THEN Rejected("undo_edit", path, "EditorToolParameterInvalidError",
                     file_history[path])
       ELSE IF Len(file_history[path]) = 0
       THEN Rejected("undo_edit", path, "ToolError", file_history[path])
       ELSE LET history == SubSeq(file_history[path], 1, Len(file_history[path]) - 1)
                old_text == IF history = <<>> THEN filesystem[path] ELSE history[Len(history)]
            IN  /\ last' = Edit("undo_edit", path, "ok", NoLine)
                /\ file_history' = [file_history EXCEPT ![path] = history]
                /\ undoable' = Undone(path)
                /\ filesystem' = [filesystem EXCEPT ![path] = old_text]
    /\ UNCHANGED otherVars

\* Mutant of UndoEdit: the entry popped is the one written back.
UndoEdit_WritesPopped(path) ==
    /\ editorUp
    /\ IF ValidatePathRaises("undo_edit", path)
       THEN Rejected("undo_edit", path, "EditorToolParameterInvalidError",
                     file_history[path])
       ELSE IF Len(file_history[path]) <= 1
       THEN Rejected("undo_edit", path, "ToolError", file_history[path])
       ELSE LET history == SubSeq(file_history[path], 1, Len(file_history[path]) - 1)
            IN  /\ last' = Edit("undo_edit", path, "ok", NoLine)
                /\ file_history' = [file_history EXCEPT ![path] = history]
                /\ undoable' = Undone(path)
                /\ filesystem' = [filesystem EXCEPT
                                    ![path] = file_history[path][Len(file_history[path])]]
    /\ UNCHANGED otherVars

\* editor(command='undo_edit', path=path)
UndoEdit(path) ==
    /\ editorUp
    /\ IF ValidatePathRaises("undo_edit", path)
       THEN Rejected("undo_edit", path, "EditorToolParameterInvalidError",
                     file_history[path])
       ELSE IF Len(file_history[path]) <= 1
       THEN Rejected("undo_edit", path, "ToolError", file_history[path])
       ELSE LET history == SubSeq(file_history[path], 1, Len(file_history[path]) - 1)
                old_text == history[Len(history)]
            IN  /\ last' = Edit("undo_edit", path, "ok", NoLine)
                /\ file_history' = [file_history EXCEPT ![path] = history]
                /\ undoable' = Undone(path)
                /\ filesystem' = [filesystem EXCEPT ![path] = old_text]
    /\ UNCHANGED otherVars

\* editor(command='view' | 'jump_to_definition' | 'find_references', path=path)
\* with a path that does not exist: validate_path raises before the command
\* is looked at.
CommandOnMissingPath(command, path) ==
    /\ editorUp
    /\ ValidatePathRaises(command, path)
    /\ Rejected(command, path, "EditorToolParameterInvalidError", file_history[path])
    /\ UNCHANGED otherVars

\* "ab\n"
CreateTexts == {<<>>, <<97, 98, 10>>}
\* "aa", "b", "c", "b\t"
OldStrs == {<<>>, <<97, 97>>, <<98>>, <<99>>, <<98, 9>>}
\* "b", "c"
NewStrs == {NotGiven, <<98>>, <<99>>}
\* "\tb"
InsertStrs == {<<>>, <<9, 98>>}
InsertLines == {NoLine, -1, 1, 4}
OtherCommands == {"view", "jump_to_definition", "find_references"}

NextCrud ==
    \/ \E path \in EditPaths, file_text \in CreateTexts : Create(path, file_text)
    \/ \E path \in EditPaths, old_str \in OldStrs, new_str \in NewStrs :
          StrReplace(path, old_str, new_str)
    \/ \E path \in EditPaths, insert_line \in InsertLines, new_str \in InsertStrs :
          Insert(path, insert_line, new_str)
    \/ \E path \in EditPaths : UndoEdit(path)
    \/ \E command \in OtherCommands, path \in EditPaths : CommandOnMissingPath(command, path)

SpecCrud == Init /\ [][NextCrud]_vars

----------------------------------------------------------------------------
(* What the claims speak of, read from the tree as it is *)

\* The tags the extractor yields for tracked file p, as a set.
FileTags(p) == SetOf(GetTagsFromFile(p, disk))

TrackedFiles == SetOf(tracked)

\* The definition (reference) tags of `symbol` in file p.
SymbolTags(p, symbol, kind) ==
    {t \in FileTags(p) : t.tag_kind = kind /\ t.node_content = symbol}

\* The tracked files that hold a tag of that kind for `symbol`.
FilesWith(symbol, kind) == {p \in TrackedFiles : SymbolTags(p, symbol, kind) # {}}

\* The positions of a line in a text.
LinePositions(text, line) == {i \in DOMAIN text : text[i] = line}

Count(seq, x) == Cardinality({i \in DOMAIN seq : seq[i] = x})

\* The last call was this query, it returned, and the tree is as the query saw it.
JustReturned(cmd) == op.cmd = cmd /\ op.outcome = "ok" /\ ~changed

\* Every file of `files` has exactly one section in the last output, headed by
\* Header(p), and the sections are in ascending path order.
OneSectionEachInOrder(files, Header(_)) ==
    /\ \A p \in files : Cardinality(LinePositions(op.output, Header(p))) = 1
    /\ \A p, q \in files :
          StrLess(p, q) =>
             \A i \in LinePositions(op.output, Header(p)),
                j \in LinePositions(op.output, Header(q)) : i < j

FullHeader(p) == p \o <<58>>
CutHeader(p) == Truncate(p \o <<58>>)

----------------------------------------------------------------------------
(* Claims about the queries (specification Spec) *)

\* C1 as stated: get_definitions_tree(S) without a path filter, for a symbol with
\* a definition tag, has the line "<relative_path>:" exactly once for every file
\* holding a definition tag of S, in ascending path order.
C1_FullPathHeaders ==
    (JustReturned("get_definitions_tree") /\ op.path = NoPath
        /\ FilesWith(op.symbol, TagKind_DEF) # {})
    => OneSectionEachInOrder(FilesWith(op.symbol, TagKind_DEF), FullHeader)

\* C1 amended: every file holding a definition tag of S has exactly one section,
\* headed by the first 150 characters of "<relative_path>:", and the sections
\* are in ascending path order.
C1_CutPathHeaders ==
    (JustReturned("get_definitions_tree") /\ op.path = NoPath
        /\ FilesWith(op.symbol, TagKind_DEF) # {})
    => OneSectionEachInOrder(FilesWith(op.symbol, TagKind_DEF), CutHeader)

\* C1 witness: an unfiltered query returned for a symbol defined in all three
\* files, the long path among them, after an edit.
C1_Witness ==
    /\ JustReturned("get_definitions_tree") /\ op.path = NoPath
    /\ FilesWith(op.symbol, TagKind_DEF) = Paths
    /\ edits > 0
    /\ Len(FullHeader(PathLong)) > MaxLineLen

ExpectedLois(p, n) ==
    IF op.cmd = "get_definitions_tree"
    THEN Cardinality({t \in SymbolTags(p, op.symbol, TagKind_DEF) :
                         t.start_line <= n /\ n <= t.end_line})
    ELSE Cardinality({t \in SymbolTags(p, op.symbol, TagKind_REF) : t.start_line = n})

\* The files the last query selects.
SelectedFiles ==
    IF op.cmd = "get_definitions_tree"
    THEN {p \in FilesWith(op.symbol, TagKind_DEF) : op.path = NoPath \/ IsSubstr(op.path, p)}
    ELSE FilesWith(op.symbol, TagKind_REF)

LineNumbers == 0..(NumLines + 1)

\* C7: every render_tree call of a query gets the lines of that file's matched
\* tags, each line once per tag that covers it (the whole range of a definition
\* tag, the start line of a reference tag), and no line of another file; a file
\* is rendered in one call.
C7_RawLinesOfTheFile ==
    (JustReturned("get_definitions_tree") \/ JustReturned("get_references_tree"))
    => /\ \A i \in DOMAIN op.calls :
             /\ op.calls[i].rel \in SelectedFiles
             /\ SetOf(op.calls[i].lois) \subseteq LineNumbers
             /\ \A n \in LineNumbers :
                   Count(op.calls[i].lois, n) = ExpectedLois(op.calls[i].rel, n)
       /\ \A p \in SelectedFiles :
             Cardinality({i \in DOMAIN op.calls : op.calls[i].rel = p})
                = IF \E n \in LineNumbers : ExpectedLois(p, n) > 0 THEN 1 ELSE 0

\* C7 witness: a definitions query rendered a file with two overlapping
\* definition ranges and then another file.
C7_Witness ==
    /\ JustReturned("get_definitions_tree")
    /\ \E i, j \in DOMAIN op.calls :
          /\ i < j
          /\ Len(op.calls[i].lois) >= 4
          /\ Count(op.calls[i].lois, 2) = 2

\* C7 witness for references: a reference tag spanning two lines gave its
\* start line alone.
C7_WitnessRef ==
    /\ JustReturned("get_references_tree")
    /\ \E i \in DOMAIN op.calls :
          /\ op.calls[i].lois = <<1>>
          /\ \E t \in SymbolTags(op.calls[i].rel, op.symbol, TagKind_REF) :
                t.end_line > t.start_line

\* The files that have a section in the last output.
FilesInOutput == {p \in Paths : LinePositions(op.output, CutHeader(p)) # {}}

\* C8: get_definitions_tree(S, F) has a section for exactly the files that hold
\* a definition tag of S and whose relative path contains F.
C8_PathFilter ==
    (JustReturned("get_definitions_tree") /\ op.path # NoPath)
    => FilesInOutput = {p \in FilesWith(op.symbol, TagKind_DEF) : IsSubstr(op.path, p)}

\* C8 witness: the filter dropped a defining file and kept one that contains
\* the filter without being equal to it.
C8_Witness ==
    /\ JustReturned("get_definitions_tree") /\ op.path = PathB
    /\ PathA \in FilesWith(op.symbol, TagKind_DEF) /\ PathA \notin FilesInOutput
    /\ PathLong \in FilesInOutput

\* C9 as stated: every line of the text a query returns is at most 150
\* characters long.
C9_EveryLineShort ==
    (JustReturned("get_definitions_tree") \/ JustReturned("get_references_tree"))
    => \A i \in DOMAIN op.output : Len(op.output[i]) <= MaxLineLen

\* C9 amended: every line after the header line (path headers and excerpt
\* lines) is at most 150 characters long; the header line is the untruncated
\* "Definition(s) of `S`:" or "References to `S`:".
C9_TreeLinesShort ==
    (JustReturned("get_definitions_tree") \/ JustReturned("get_references_tree"))
    => /\ \A i \in DOMAIN op.output : i > 2 => Len(op.output[i]) <= MaxLineLen
       /\ op.output[1] = <<>>
       /\ op.output[2] = IF op.cmd = "get_definitions_tree"
                         THEN DefinitionsHeader(op.symbol)
                         ELSE ReferencesHeader(op.symbol)

\* C9 witness: an excerpt line longer than 150 characters was rendered and the
\* output holds it cut to 150.
C9_Witness ==
    /\ JustReturned("get_definitions_tree")
    /\ \E i \in DOMAIN op.calls :
          /\ disk[op.calls[i].rel].code = 2
          /\ 2 \in SetOf(op.calls[i].lois)
          /\ Len(RenderedLine(2, 2)) > MaxLineLen
          /\ Truncate(RenderedLine(2, 2)) \in SetOf(op.output)

----------------------------------------------------------------------------
(* Claim about the index (specification SpecIndex) *)

\* The keys of the buckets of a tag index that hold tag t.
BucketsOf(buckets, t) == {k \in DOMAIN buckets : t \in buckets[k]}

\* C10: after get_parsed_tags every definition tag the extractor yields is in
\* exactly one bucket of identwrel2deftags, (its file, its identifier), with its
\* file in ident2defrels[identifier], and in no reference bucket; likewise every
\* reference tag in the reference indices; and p is in ident2defrels[s] exactly
\* when identwrel2deftags[(p, s)] is not empty.
C10_IndexBuckets ==
    JustReturned("get_parsed_tags")
    => /\ \A p \in TrackedFiles : \A t \in FileTags(p) :
             /\ t.tag_kind = TagKind_DEF =>
                   /\ BucketsOf(index.identwrel2deftags, t) = {<<p, t.node_content>>}
                   /\ p \in Get(index.ident2defrels, t.node_content, {})
                   /\ BucketsOf(index.identwrel2reftags, t) = {}
             /\ t.tag_kind = TagKind_REF =>
                   /\ BucketsOf(index.identwrel2reftags, t) = {<<p, t.node_content>>}
                   /\ p \in SetOf(Get(index.ident2refrels, t.node_content, <<>>))
                   /\ BucketsOf(index.identwrel2deftags, t) = {}
       /\ \A p \in Paths : \A s \in {SymF, SymG, SymFx} :
             p \in Get(index.ident2defrels, s, {})
                <=> Get(index.identwrel2deftags, <<p, s>>, {}) # {}

\* C10 witness: the index of a tree, edited and listed in another order than at
\* the start, in which one identifier is defined in two files and referenced
\* in a third.
C10_Witness ==
    /\ JustReturned("get_parsed_tags")
    /\ edits > 0 /\ Len(tracked) = 3 /\ tracked[1] # PathA
    /\ \E s \in {SymF, SymG} :
          /\ Cardinality(Get(index.ident2defrels, s, {})) = 2
          /\ Len(Get(index.ident2refrels, s, <<>>)) >= 2

\* The orders in which the files tracked now can be listed.
Listings == TrackedFileLists(TrackedFiles)

\* Two lists hold every path the same number of times.
SameMultiset(s, t) == \A p \in Paths : Count(s, p) = Count(t, p)

\* Two reference-path dictionaries have the same identifiers, each with the
\* same multiset of paths.
SameRefRels(d, e) ==
    /\ DOMAIN d = DOMAIN e
    /\ \A k \in DOMAIN d : SameMultiset(d[k], e[k])

\* C25: the index get_parsed_tags returned equals, in ident2defrels,
\* identwrel2deftags and identwrel2reftags, the index of the same files listed
\* in any other order, and its ident2refrels holds per identifier the same
\* paths the same number of times.
C25_OrderOfFilesIrrelevant ==
    JustReturned("get_parsed_tags")
    => \A files \in Listings :
          LET other == GetParsedTags(files, disk)
          IN  /\ index.ident2defrels = other.ident2defrels
              /\ index.identwrel2deftags = other.identwrel2deftags
              /\ index.identwrel2reftags = other.identwrel2reftags
              /\ SameRefRels(index.ident2refrels, other.ident2refrels)

\* C25 witness: the index of three files, listed in another order than at the
\* start, whose reference lists differ in order from those of another listing
\* of the same files.
C25_Witness ==
    /\ JustReturned("get_parsed_tags")
    /\ Len(tracked) = 3 /\ tracked # <<PathA, PathLong, PathB>>
    /\ \E files \in Listings :
          GetParsedTags(files, disk).ident2refrels # index.ident2refrels

----------------------------------------------------------------------------
(* Claim about render_tree (specification SpecRender) *)

\* C2 as stated: when the content and the modification time of a file both
\* differ from what they were at its last render, the next render_tree call
\* returns, and stores under its key, text rendered from the new content.
C2_FreshAfterChange ==
    (JustReturned("render_tree") /\ bothChanged)
    => LET lois == op.calls[1].lois
           fresh == Format(disk[op.path].code, SetOf(lois))
           key == TreeCacheKey(op.path, lois, disk[op.path].mtime)
       IN  /\ op.output = fresh
           /\ rendered_tree_cache[key] = fresh

\* The key of a render_tree call on the file as it is now.
CurrentKey(rel_file, lois) == TreeCacheKey(rel_file, lois, disk[rel_file].mtime)

\* C19: a render_tree call that misses the rendered cache replaces the file's
\* entry of file_context_cache by a handle on the file's current content, stored
\* with the current modification time and read from the file, when there is no
\* entry or the stored modification time is older than the current one;
\* otherwise the entry keeps its handle (the content it was built from) and its
\* modification time, and the file is not read.
C19_ContextReplacedOrReused ==
    [][\A p \in RenderPaths, lois \in LoisLists :
          (/\ RenderTreeCall(p, lois)
           /\ CurrentKey(p, lois) \notin DOMAIN rendered_tree_cache)
          => IF \/ p \notin DOMAIN file_context_cache
                \/ file_context_cache[p].mtime < disk[p].mtime
             THEN /\ file_context_cache'[p].mtime = disk[p].mtime
                  /\ file_context_cache'[p].context.code = disk[p].code
                  /\ op'.calls[1].read
             ELSE /\ file_context_cache'[p].mtime = file_context_cache[p].mtime
                  /\ file_context_cache'[p].context.code = file_context_cache[p].context.code
                  /\ ~op'.calls[1].read]_vars

\* C19 witness: a render_tree call missed the rendered cache and reused a
\* handle stored with a newer modification time than the file has now, built
\* from other content than the file has now.
C19_Witness ==
    /\ JustReturned("render_tree")
    /\ ~op.calls[1].hit /\ ~op.calls[1].read
    /\ file_context_cache[op.path].mtime > disk[op.path].mtime
    /\ file_context_cache[op.path].context.code # disk[op.path].code

\* C20: a render_tree call whose key (path, sorted lines of interest, current
\* modification time) is in rendered_tree_cache returns the text stored under
\* the key, leaves rendered_tree_cache and file_context_cache (the handle's
\* lines of interest included) as they were, and does not read the file.
C20_HitChangesNothing ==
    [][\A p \in RenderPaths, lois \in LoisLists :
          (/\ RenderTreeCall(p, lois)
           /\ CurrentKey(p, lois) \in DOMAIN rendered_tree_cache)
          => (/\ op'.output = rendered_tree_cache[CurrentKey(p, lois)]
              /\ UNCHANGED <<rendered_tree_cache, file_context_cache>>
              /\ ~op'.calls[1].read)]_vars

\* C20 witness: a render_tree call hit the rendered cache while the file's
\* handle held the lines of interest of another call.
C20_Witness ==
    /\ JustReturned("render_tree")
    /\ op.calls[1].hit
    /\ file_context_cache[op.path].context.lines_of_interest # SetOf(op.calls[1].lois)

\* The keys of rendered_tree_cache for the file as it is now whose line
\* list holds the same set of lines as lois.
KeysOfSameLines(rel_file, lois) ==
    {k \in DOMAIN rendered_tree_cache :
        /\ k[1] = rel_file
        /\ k[3] = disk[rel_file].mtime
        /\ SetOf(k[2]) = SetOf(lois)}

\* C21 as stated: a render_tree call whose line list holds the same set of
\* lines as the list of an earlier call for the same file and modification
\* time, in whatever order and multiplicity, is a hit of the rendered cache.
C21_SameLinesSameKey ==
    [][\A p \in RenderPaths, lois \in LoisLists :
          (RenderTreeCall(p, lois) /\ KeysOfSameLines(p, lois) # {})
          => op'.calls[1].hit]_vars

\* C22: no step removes a key from rendered_tree_cache or replaces the text
\* stored under a key by another text.
C22_RenderedCacheOnlyGrows ==
    [][\A k \in DOMAIN rendered_tree_cache :
          /\ k \in DOMAIN rendered_tree_cache'
          /\ rendered_tree_cache'[k] = rendered_tree_cache[k]]_vars

\* C22 witness: after a render_tree call that stored a new entry, the cache
\* holds two texts for the same file and lines under two modification times,
\* one of which is no longer the file's.
C22_Witness ==
    /\ JustReturned("render_tree") /\ ~op.calls[1].hit
    /\ \E k \in DOMAIN rendered_tree_cache :
          /\ k[1] = op.path /\ k[2] = Sorted(op.calls[1].lois)
          /\ k[3] # disk[op.path].mtime
          /\ rendered_tree_cache[k]
                # rendered_tree_cache[CurrentKey(op.path, op.calls[1].lois)]

\* What a navigator on which render_tree was never called returns for
\* render_tree(rel_file, lois) on a file of content `code`.
FirstRender(rel_file, lois, code) ==
    RenderTree(rel_file, lois, [disk EXCEPT ![rel_file].code = code],
               EmptyDict, EmptyDict).res

\* C23: a render_tree call that renders on the reused handle of the file
\* returns the text that a navigator without any earlier call returns for the
\* same lines and the content the handle holds, and leaves the handle with the
\* lines of this call alone.
C23_NoLeakFromEarlierCalls ==
    [][\A p \in RenderPaths, lois \in LoisLists :
          (/\ RenderTreeCall(p, lois)
           /\ ~op'.calls[1].hit /\ ~op'.calls[1].read)
          => (/\ op'.output = FirstRender(p, lois, file_context_cache[p].context.code)
              /\ file_context_cache'[p].context.lines_of_interest = SetOf(lois))]_vars

\* C23 witness: a call for line 1 alone rendered on a handle that an earlier
\* call had left with lines 1 and 2, on the unchanged file.
C23_Witness ==
    /\ JustReturned("render_tree")
    /\ ~op.calls[1].hit /\ ~op.calls[1].read
    /\ op.calls[1].lois = <<1>>
    /\ file_context_cache[op.path].context.code = disk[op.path].code
    /\ Cardinality({k \in DOMAIN rendered_tree_cache : k[1] = op.path}) = 2
    /\ \E k \in DOMAIN rendered_tree_cache :
          /\ k[1] = op.path /\ k[3] = disk[op.path].mtime /\ 2 \in SetOf(k[2])
          /\ rendered_tree_cache[k] # op.output

----------------------------------------------------------------------------
(* Claims about the editor's navigation commands (specification SpecEditor) *)

StartsWith(line, prefix) ==
    Len(line) >= Len(prefix) /\ SubSeq(line, 1, Len(prefix)) = prefix

\* "No definitions found for `" symbol "`"
NoDefinitionsMessage(symbol) ==
    <<78,111,32,100,101,102,105,110,105,116,105,111,110,115,32,102,111,117,110,100,
      32,102,111,114,32,96>> \o symbol \o <<96>>

\* "No references found for `" symbol "`"
NoReferencesMessage(symbol) ==
    <<78,111,32,114,101,102,101,114,101,110,99,101,115,32,102,111,117,110,100,
      32,102,111,114,32,96>> \o symbol \o <<96>>

\* "No git repository found. Navigation commands are disabled. Please use bash
\* commands instead."
NoGitMessage ==
    <<78,111,32,103,105,116,32,114,101,112,111,115,105,116,111,114,121,32,102,111,
      117,110,100,46,32,78,97,118,105,103,97,116,105,111,110,32,99,111,109,109,97,
      110,100,115,32,97,114,101,32,100,105,115,97,98,108,101,100,46,32,80,108,101,
      97,115,101,32,117,115,101,32,98,97,115,104,32,99,111,109,109,97,110,100,115,
      32,105,110,115,116,101,97,100,46>>

\* The last command was a lookup that returned and found no tag for its symbol.
NoMatch(cmd, kind) == JustReturned(cmd) /\ FilesWith(op.symbol, kind) = {}

\* C4 as stated: a lookup of a symbol with no definition tag (jump_to_definition)
\* or no reference tag (find_references) returns the "No definitions found for
\* `S`" / "No references found for `S`" message and no header with an empty
\* section under it.
C4_NoMatchMessage ==
    /\ NoMatch("jump_to_definition", TagKind_DEF)
          => /\ op.output # <<>>
             /\ StartsWith(op.output[1], NoDefinitionsMessage(op.symbol))
             /\ DefinitionsHeader(op.symbol) \notin SetOf(op.output)
    /\ NoMatch("find_references", TagKind_REF)
          => /\ op.output # <<>>
             /\ StartsWith(op.output[1], NoReferencesMessage(op.symbol))
             /\ ReferencesHeader(op.symbol) \notin SetOf(op.output)

\* The identifiers known in the tree: those of its definition and reference tags.
KnownIdentifiers == {t.node_content : t \in UNION {FileTags(p) : p \in TrackedFiles}}

\* Two identifiers of the same length that differ in one character.
LexicallyClose(s, t) ==
    /\ Len(s) = Len(t)
    /\ Cardinality({i \in DOMAIN s : s[i] # t[i]}) = 1

Mentions(text, word) == \E i \in DOMAIN text : IsSubstr(word, text[i])

\* C5 as stated: when the lookup finds no tag, the text names a known identifier
\* that is lexically close to the symbol when there is one, and names no
\* known identifier when none is close.
C5_Suggestions ==
    (NoMatch("jump_to_definition", TagKind_DEF) \/ NoMatch("find_references", TagKind_REF))
    => LET close == {t \in KnownIdentifiers : LexicallyClose(op.symbol, t)}
       IN  /\ close # {} => \E t \in close : Mentions(op.output, t)
           /\ close = {} => \A t \in KnownIdentifiers : ~Mentions(op.output, t)

\* C6 as stated: without a git repository the editor still exists, and its
\* navigation commands return the advisory message instead of raising.
C6_AdvisoryWithoutGit ==
    /\ editorUp
    /\ (op.cmd \in {"jump_to_definition", "find_references"} /\ ~changed /\ ~gitOk
          /\ op.symbol # <<>> /\ (op.path = NoPath \/ PathIsValid(op.path)))
       => (op.outcome = "ok" /\ op.output = <<NoGitMessage>>)

----------------------------------------------------------------------------
(* Claims about failures during a query (specification SpecFault) *)

\* The tracked files whose extraction works, in listing order.
ExtractableFiles ==
    LET Works(p) == ~ExtractionFails(p) IN SelectSeq(tracked, Works)

\* The last call was made on the tree as it is now.
JustCalled(cmds) == op.cmd \in cmds /\ ~changed

\* C11 as stated: when the extraction of a tracked file fails, get_parsed_tags
\* skips that file and returns the index of all other tracked files, and the
\* queries built on it do not raise.
C11_FailingFileSkipped ==
    (/\ JustCalled({"get_parsed_tags", "get_definitions_tree", "get_references_tree"})
     /\ SomeExtractionFails)
    => /\ op.outcome = "ok"
       /\ op.cmd = "get_parsed_tags" => index = GetParsedTags(ExtractableFiles, disk)

\* C12 as stated: when a file that matched the symbol cannot be read at render
\* time, the query returns, without an excerpt of that file and with the
\* sections of all other matched files.
C12_UnreadableFileOmitted ==
    (/\ JustCalled({"get_definitions_tree", "get_references_tree"})
     /\ ~SomeExtractionFails
     /\ \E p \in SelectedFiles : RenderReadFails(p))
    => /\ op.outcome = "ok"
       /\ \A p \in SelectedFiles :
             IF RenderReadFails(p)
             THEN \A i \in DOMAIN op.calls : op.calls[i].rel # p
             ELSE LinePositions(op.output, CutHeader(p)) # {}

----------------------------------------------------------------------------
(* Claims about the editor's edit commands (specification SpecCrud) *)

InvalidError == "EditorToolParameterInvalidError"
EditCommands == {"str_replace", "insert"}

\* The step is the command `cmd` (the record of the last command is replaced
\* by that of a `cmd` call).
IsCall(cmd) == last'.cmd = cmd

\* C13: undo_edit given right after a successful str_replace or insert on the
\* same path succeeds and leaves the file with exactly the content it had
\* when that edit was called.
C13_UndoRestores ==
    [][(/\ last.cmd \in EditCommands /\ last.outcome = "ok"
        /\ IsCall("undo_edit") /\ last'.path = last.path)
       => (/\ last'.outcome = "ok"
           /\ filesystem'[last.path] = last.before)]_vars

\* C13 witness: an undo_edit has taken back the second of two edits of a
\* file, leaving the content of the first edit (not the baseline), in which
\* the tabs were expanded.
C13_Witness ==
    /\ last.cmd = "undo_edit" /\ last.outcome = "ok"
    /\ Len(file_history[last.path]) = 2
    /\ filesystem[last.path] # last.before
    /\ filesystem[last.path] # file_history[last.path][1]
    /\ \E i \in DOMAIN file_history[last.path][1] : file_history[last.path][1][i] = Tab

\* C14: undo_edit on an existing file whose history is empty or holds the
\* baseline alone raises ToolError and changes neither the files nor the
\* history.
C14_NothingToUndo ==
    [][(/\ IsCall("undo_edit")
        /\ Exists(last'.path)
        /\ Len(file_history[last'.path]) <= 1)
       => (/\ last'.outcome = "ToolError"
           /\ UNCHANGED <<filesystem, file_history>>)]_vars

\* C14 witness: undo_edit was refused on a file the editor created and never
\* edited; its history holds the created text alone.
C14_Witness ==
    /\ last.cmd = "undo_edit" /\ last.outcome = "ToolError"
    /\ last.path = PathN
    /\ file_history[PathN] = <<filesystem[PathN]>>

\* The positions of s at which sub occurs, overlapping occurrences included.
Positions(s, sub) == {i \in 1..Len(s) : OccursAt(s, sub, i)}

\* C15 as stated: str_replace on a file in which old_str occurs nowhere or at
\* more than one position (overlapping occurrences counted) raises ToolError and
\* leaves the content unchanged; it replaces only a unique old_str.
C15_UniqueOrRejected ==
    [][\A path \in EditPaths, old_str \in OldStrs \ {<<>>}, new_str \in NewStrs :
          (/\ StrReplace(path, old_str, new_str)
           /\ Exists(path)
           /\ Cardinality(Positions(filesystem[path], old_str)) # 1)
          => (/\ last'.outcome = "ToolError"
              /\ filesystem' = filesystem)]_vars

\* C16 as stated: str_replace with new_str equal to old_str raises
\* EditorToolParameterInvalidError, writes nothing and adds no history entry.
C16_SameStringsRejected ==
    [][\A path \in EditPaths, old_str \in (OldStrs \cap NewStrs) \ {<<>>} :
          (StrReplace(path, old_str, old_str) /\ Exists(path))
          => (/\ last'.outcome = InvalidError
              /\ filesystem' = filesystem
              /\ Len(file_history'[path]) <= Len(PopulatedHistory(path)))]_vars

\* C17: create on an existing path raises EditorToolParameterInvalidError and
\* changes neither the files nor the history; any other command on a path that
\* does not exist raises EditorToolParameterInvalidError and creates no file.
C17_CreateNeverOverwrites ==
    [][/\ (IsCall("create") /\ Exists(last'.path))
          => (last'.outcome = InvalidError /\ UNCHANGED <<filesystem, file_history>>)
       /\ (last'.cmd \notin {"create", "none"} /\ ~Exists(last'.path))
          => (last'.outcome = InvalidError /\ UNCHANGED <<filesystem, file_history>>)]_vars

\* C17 witness: create was refused on a file that an earlier create wrote and
\* a str_replace or insert then changed.
C17_Witness ==
    /\ last.cmd = "create" /\ last.outcome = InvalidError
    /\ last.path = PathN
    /\ Len(file_history[PathN]) >= 2

\* The number of lines of a text as the editor counts and shows them: the
\* pieces between the newlines, one more than there are newlines.
NumberOfLines(text) == Cardinality({i \in DOMAIN text : text[i] = Newline}) + 1

\* C18: insert on an existing file with an insert_line below 0 or above the
\* number of lines of the file raises EditorToolParameterInvalidError and
\* leaves the content unchanged.
C18_InsertLineOutOfRange ==
    [][(/\ IsCall("insert")
        /\ Exists(last'.path)
        /\ last'.insert_line # NoLine
        /\ (\/ last'.insert_line < 0
            \/ last'.insert_line > NumberOfLines(filesystem[last'.path]))
        /\ \E new_str \in InsertStrs \ {<<>>} :
               Insert(last'.path, last'.insert_line, new_str))
       => (/\ last'.outcome = InvalidError
           /\ filesystem' = filesystem)]_vars

\* C18 witness: an insert one line past the end of a file that an earlier
\* insert had made one line longer was refused.
C18_Witness ==
    /\ last.cmd = "insert" /\ last.outcome = InvalidError
    /\ Exists(last.path)
    /\ Len(file_history[last.path]) >= 2
    /\ last.insert_line = NumberOfLines(filesystem[last.path]) + 1

----------------------------------------------------------------------------
(* Claims about the queries on a changing tree (specification SpecTree) *)

\* The lines of file p that the tags matched by the last query cover, in the
\* tree as it is now.
CurrentLines(p) == {n \in LineNumbers : ExpectedLois(p, n) > 0}

\* The files an index names for the symbol of the last query.
IndexedFiles(idx) ==
    IF op.cmd = "get_definitions_tree"
    THEN Get(idx.ident2defrels, op.symbol, {})
    ELSE SetOf(Get(idx.ident2refrels, op.symbol, <<>>))

\* C24: a get_definitions_tree or get_references_tree call has a section for
\* exactly the files that are tracked at the call and whose content at the
\* call holds a matching tag, and renders each with the lines of the tags of
\* that content, whatever the tree was at earlier calls.
C24_MatchesCurrentTree ==
    (JustReturned("get_definitions_tree") \/ JustReturned("get_references_tree"))
    => /\ FilesInOutput = SelectedFiles
       /\ \A i \in DOMAIN op.calls :
             SetOf(op.calls[i].lois) = CurrentLines(op.calls[i].rel)
       /\ {op.calls[i].rel : i \in DOMAIN op.calls}
             = {p \in SelectedFiles : CurrentLines(p) # {}}

\* C24 witness: a query returned on a tree that differs, in the files matching
\* its symbol, from the tree an earlier get_parsed_tags call indexed: a file
\* was added to the matching ones and another was removed.
C24_Witness ==
    /\ JustReturned("get_definitions_tree") \/ JustReturned("get_references_tree")
    /\ index # EmptyIndex
    /\ IndexedFiles(index) \ SelectedFiles # {}
    /\ SelectedFiles \ IndexedFiles(index) # {}

\* The number of reference tags for symbol s among the tags the extractor
\* yields for file p, equal ones counted as often as they are yielded.
YieldedRefs(p, s) ==
    Cardinality({i \in DOMAIN GetTagsFromFile(p, disk) :
                    /\ GetTagsFromFile(p, disk)[i].tag_kind = TagKind_REF
                    /\ GetTagsFromFile(p, disk)[i].node_content = s})

HeaderOnlyFiles == {p \in SelectedFiles : CurrentLines(p) = {}}

\* The text without lines i and j.
WithoutLines(text, i, j) ==
    SelectSeq([k \in DOMAIN text |-> <<k, text[k]>>],
              LAMBDA e : e[1] # i /\ e[1] # j)

\* The text get_definitions_tree returns now, for the symbol of the last query,
\* on the tree with file h not tracked.
DefinitionsWithout(h) ==
    LET files == SelectSeq(tracked, LAMBDA p : p # h)
        idx == GetParsedTags(files, disk)
        def_tags_list == CHOOSE l \in SortedLists(DefTags(idx, op.symbol, op.path)) : TRUE
        text == DefinitionsTree(op.symbol, def_tags_list, TRUE, disk,
                                file_context_cache, rendered_tree_cache).output
    IN  [k \in DOMAIN text |-> <<k, text[k]>>]

\* The text of the last query as numbered lines with the numbers left out.
Unnumbered(numbered) == [k \in DOMAIN numbered |-> numbered[k][2]]

\* Every header-only file of the last get_definitions_tree call has one line
\* Header(h) in the output, after an empty line; render_tree was not called for
\* it; and, when other files matched, the output without these two lines is
\* the output of the query on the tree without the file.
HeaderAlone(Header(_)) ==
    \A h \in HeaderOnlyFiles :
       /\ \E i \in DOMAIN op.output :
             /\ LinePositions(op.output, Header(h)) = {i}
             /\ i > 1 /\ op.output[i - 1] = <<>>
             /\ SelectedFiles # {h}
                => Unnumbered(WithoutLines(op.output, i - 1, i))
                      = Unnumbered(DefinitionsWithout(h))
       /\ \A j \in DOMAIN op.calls : op.calls[j].rel # h

\* C27 as stated: a matched file without a line of interest appears as the line
\* "<relative_path>:" alone, is not rendered, and leaves the sections of the
\* other files as they are without it.
C27_FullHeaderAlone ==
    JustReturned("get_definitions_tree") => HeaderAlone(FullHeader)

\* C27 amended: the same with the header being the first 150 characters of
\* "<relative_path>:".
C27_CutHeaderAlone ==
    JustReturned("get_definitions_tree") => HeaderAlone(CutHeader)

\* C27 witness: the file with the long path matched with an empty range
\* between two files that were rendered.
C27_Witness ==
    /\ JustReturned("get_definitions_tree")
    /\ HeaderOnlyFiles = {PathLong}
    /\ Len(FullHeader(PathLong)) > MaxLineLen
    /\ Len(op.calls) = 2
    /\ op.calls[1].rel = PathA /\ op.calls[2].rel = PathB

----------------------------------------------------------------------------
(* Claim about render_tree under threads (specification SpecThreads) *)

\* The text render_tree is to return for the file as it is and the lines lois.
OwnText(rel_file, lois) == Format(disk[rel_file].code, SetOf(lois))

\* Thread t returned from a render_tree call that missed the rendered cache
\* with the text of another line list than its own, and that text is what
\* rendered_tree_cache holds under the key of its call.
ReturnedOtherText(t) ==
    /\ Frame(t).pc = "idle" /\ Frame(t).returned
    /\ Frame(t).res # OwnText(Frame(t).rel_file, Frame(t).lois)
    /\ \E lois \in ThreadLois \ {Frame(t).lois} :
          Frame(t).res = OwnText(Frame(t).rel_file, lois)
    /\ LET key == TreeCacheKey(Frame(t).rel_file, Frame(t).lois, Frame(t).mtime)
       IN  /\ key \in DOMAIN rendered_tree_cache
           /\ rendered_tree_cache[key] = Frame(t).res

\* C28: as long as no render_tree call began while another was in progress,
\* every call returned the text of its own lines and every entry of
\* rendered_tree_cache holds the text of its key's lines; a call that returns
\* and stores the text of another call's lines is reached only through
\* interleaved calls (the witness).
C28_MixedOnlyWhenInterleaved ==
    ~threads.interleaved
    => /\ \A t \in Threads :
             Frame(t).returned => Frame(t).res = OwnText(Frame(t).rel_file, Frame(t).lois)
       /\ \A key \in DOMAIN rendered_tree_cache :
             rendered_tree_cache[key] = OwnText(key[1], key[2])

\* C28 witness: two calls for the same file with different lines were in
\* progress together, and one of them returned, and stored under its own key,
\* the text rendered for the lines of the other.
C28_Witness ==
    /\ threads.interleaved
    /\ \E t \in Threads : \E u \in Threads \ {t} :
          /\ ReturnedOtherText(t)
          /\ Frame(u).rel_file = Frame(t).rel_file
          /\ Frame(u).lois # Frame(t).lois
          /\ Frame(t).res = OwnText(Frame(t).rel_file, Frame(u).lois)

----------------------------------------------------------------------------
(* Claims about tab characters in the edit commands (specification SpecCrud) *)

\* The lines of a text as given, tab characters kept.
LinesOf(text) == SplitLines(text)

\* C29 as stated: after a successful insert at line k the lines of the file are
\* its lines 1..k as they were, then the lines of new_str, then its lines
\* k+1..n as they were.
C29_InsertChangesNothingElse ==
    [][\A path \in EditPaths, insert_line \in InsertLines \ {NoLine},
          new_str \in InsertStrs \ {<<>>} :
          (Insert(path, insert_line, new_str) /\ last'.outcome = "ok")
          => LET old == LinesOf(filesystem[path])
                 new == LinesOf(filesystem'[path])
                 added == LinesOf(new_str)
             IN  /\ Len(new) = Len(old) + Len(added)
                 /\ SubSeq(new, 1, insert_line) = SubSeq(old, 1, insert_line)
                 /\ SubSeq(new, insert_line + 1, insert_line + Len(added)) = added
                 /\ SubSeq(new, insert_line + Len(added) + 1, Len(new))
                       = SubSeq(old, insert_line + 1, Len(old))]_vars

\* The text with the occurrence of old_str at position i replaced by new_str.
ReplacedAt(text, i, old_str, new_str) ==
    SubSeq(text, 1, i - 1) \o new_str \o SubSeq(text, i + Len(old_str), Len(text))

\* C30 as stated: str_replace with an old_str that occurs, as given, at exactly
\* one position of the file succeeds and replaces that occurrence by new_str,
\* tab characters in old_str and in the file included.
C30_VerbatimOccurrenceReplaced ==
    [][\A path \in EditPaths, old_str \in OldStrs \ {<<>>}, new_str \in NewStrs :
          (/\ StrReplace(path, old_str, new_str)
           /\ Exists(path)
           /\ Cardinality(Positions(filesystem[path], old_str)) = 1)
          => (/\ last'.outcome = "ok"
              /\ \A i \in Positions(filesystem[path], old_str) :
                    filesystem'[path]
                       = ReplacedAt(filesystem[path], i, old_str,
                                    IF new_str = NotGiven THEN <<>> ELSE new_str))]_vars

----------------------------------------------------------------------------
(* Claims about the history of a file (specification SpecCrud) *)

\* C31: whenever the history of a path is not empty, the file exists and the
\* last entry of the history is the content of the file, after any sequence
\* of create, str_replace, insert and undo_edit, accepted or rejected.
C31_LastEntryIsContent ==
    \A path \in EditPaths :
       Len(file_history[path]) > 0
       => (/\ Exists(path)
           /\ file_history[path][Len(file_history[path])] = filesystem[path])

\* C31 witness: a str_replace rejected with ToolError has left the baseline
\* alone in the history of the file that was there at the start, while the
\* history of the created file holds the text created and an edit of it.
C31_Witness ==
    /\ last.cmd = "str_replace" /\ last.outcome = "ToolError"
    /\ last.path = PathF
    /\ file_history[PathF] = <<InitFiles[PathF]>>
    /\ Len(file_history[PathN]) >= 2
    /\ file_history[PathN][Len(file_history[PathN])] = filesystem[PathN]

\* C32: undo_edit on an existing file succeeds exactly when an edit of the
\* file (str_replace or insert) has not been undone yet, and then leaves the
\* file with the content the latest such edit found, so that n undo_edits
\* after n edits go back through the contents in reverse order down to the
\* original; with no edit left to undo (all n undone, or the file only
\* created) it raises ToolError and leaves the file as it is.
C32_UndoIsAStack ==
    [][(IsCall("undo_edit") /\ Exists(last'.path))
       => LET left == undoable[last'.path]
          IN  IF left # <<>>
              THEN /\ last'.outcome = "ok"
                   /\ filesystem'[last'.path] = left[Len(left)]
                   /\ undoable'[last'.path] = SubSeq(left, 1, Len(left) - 1)
              ELSE /\ last'.outcome = "ToolError"
                   /\ filesystem' = filesystem]_vars

\* C32 witness: of two edits of the file that was there at the start the
\* second has been undone and the first is left to undo, the file being as
\* the first edit left it, while the other file was created and never edited
\* and has nothing to undo.
C32_Witness ==
    /\ last.cmd = "undo_edit" /\ last.outcome = "ok"
    /\ last.path = PathF
    /\ undoable[PathF] = <<InitFiles[PathF]>>
    /\ Len(file_history[PathF]) = 2
    /\ filesystem[PathF] \notin {InitFiles[PathF], last.before}
    /\ Exists(PathN)
    /\ undoable[PathN] = <<>>
    /\ file_history[PathN] = <<filesystem[PathN]>>

====
